---------------------------- MODULE Spec2Model ----------------------------
(***************************************************************************)
(* A model of the wallex-go client library.                                *)
(*                                                                         *)
(*   - Number (number.go): a string-backed decimal with IsUndefined,       *)
(*     Float and UnmarshalJSON.  Strings are sequences of one-character    *)
(*     strings, so that parsing and formatting are computed, character by  *)
(*     character, the way strconv.ParseFloat, encoding/json and            *)
(*     fmt.Sprintf("%f") compute them.                                     *)
(*   - Client (client.go): New and the fifteen endpoint methods, each in   *)
(*     two steps: credential check and request, then, once the transport   *)
(*     has answered, status mapping, decoding and result.                  *)
(*                                                                         *)
(* A finite float64 is kept as the decimal it was parsed from,             *)
(*   [cls |-> "fin", neg, mant, exp]   (-1)^neg * mant * 10^exp            *)
(* with mant not divisible by 10 (mant = 0 has exp = 0), and stands for    *)
(* the float64 nearest to that decimal; the others are                     *)
(* [cls |-> "inf", neg] and [cls |-> "nan"].  Two decimals of at most nine *)
(* significant digits have different nearest float64s unless they are      *)
(* among the denormals, where FloatEq counts steps of 2^-1074; elsewhere   *)
(* equality of the records is equality of the floats.  Formatting prints   *)
(* the digits of the nearest float64, not of the decimal.  Strings that    *)
(* are parsed hold at most nine significant digits and no hexadecimal      *)
(* floats, underscores, JSON escapes or white space around JSON values.    *)
(***************************************************************************)
EXTENDS Integers, Sequences, FiniteSets, TLC

VARIABLES
    \* ---- Number ----
    num,      \* the receiver: a Number (a string)
    data,     \* the payload of the last UnmarshalJSON call
    uerr,     \* the value the last UnmarshalJSON call returned
    flt,      \* the value the last Float() call on num returned
    undef,    \* the value the last IsUndefined() call on num returned
    origin,   \* how num got its value: zero value, conversion, UnmarshalJSON
    held,     \* what num held when the last UnmarshalJSON call began: nothing,
              \* a number, or a string that is no number
    \* ---- Client ----
    env,      \* the process environment's WALLEX_API_KEY
    opt,      \* the ClientOptions New was called with
    envAtNew, \* os.Getenv("WALLEX_API_KEY") as it was when New ran
    client,   \* the Client New returned
    call,     \* the last method call: request(s), answer, result, error
    allocs,   \* the number of Error values wrapRequestError has allocated
    errorVars, \* the Errors the package-level variables ErrNotFound, ... point to
    calls     \* per calling goroutine: the call it runs or has returned from

numVars == <<num, data, uerr, flt, undef, origin, held>>
clientVars == <<env, opt, envAtNew, client, call, allocs, errorVars, calls>>
vars ==
    <<num, data, uerr, flt, undef, origin, held, env, opt, envAtNew, client, call,
      allocs, errorVars, calls>>

-----------------------------------------------------------------------------
(* Characters and digit strings                                            *)

\* The ASCII control characters the strings of the model hold.
ControlChar == {"\n", "\r", "\t"}

Digit == {"0", "1", "2", "3", "4", "5", "6", "7", "8", "9"}

DigitVal(c) ==
    CASE c = "0" -> 0 [] c = "1" -> 1 [] c = "2" -> 2 [] c = "3" -> 3
      [] c = "4" -> 4 [] c = "5" -> 5 [] c = "6" -> 6 [] c = "7" -> 7
      [] c = "8" -> 8 [] c = "9" -> 9

DigitChar(d) ==
    CASE d = 0 -> "0" [] d = 1 -> "1" [] d = 2 -> "2" [] d = 3 -> "3"
      [] d = 4 -> "4" [] d = 5 -> "5" [] d = 6 -> "6" [] d = 7 -> "7"
      [] d = 8 -> "8" [] d = 9 -> "9"

\* ASCII lower-casing of the letters that matter to "inf", "infinity", "nan", "e".
Lower(c) ==
    CASE c = "I" -> "i" [] c = "N" -> "n" [] c = "F" -> "f" [] c = "T" -> "t"
      [] c = "Y" -> "y" [] c = "A" -> "a" [] c = "E" -> "e"
      [] OTHER -> c

LowerStr(s) == [i \in 1..Len(s) |-> Lower(s[i])]

RECURSIVE Pow10(_)
Pow10(k) == IF k = 0 THEN 1 ELSE 10 * Pow10(k - 1)

RECURSIVE DigitsToNat(_)
DigitsToNat(s) ==
    IF Len(s) = 0 THEN 0
    ELSE 10 * DigitsToNat(SubSeq(s, 1, Len(s) - 1)) + DigitVal(s[Len(s)])

RECURSIVE NatToDigits(_)
NatToDigits(k) ==
    IF k < 10 THEN <<DigitChar(k)>>
    ELSE Append(NatToDigits(k \div 10), DigitChar(k % 10))

Zeros(k) == [i \in 1..k |-> "0"]

RECURSIVE StripLeadingZeros(_)
StripLeadingZeros(s) ==
    IF Len(s) > 0 /\ s[1] = "0" THEN StripLeadingZeros(Tail(s)) ELSE s

\* The number of "0" characters at the end of s.
RECURSIVE TrailingZeros(_)
TrailingZeros(s) ==
    IF Len(s) > 0 /\ s[Len(s)] = "0"
    THEN 1 + TrailingZeros(SubSeq(s, 1, Len(s) - 1))
    ELSE 0

\* The least index i >= start of s with s[i] not a digit, or Len(s) + 1.
NonDigitFrom(s, start) ==
    IF \E i \in start..Len(s) : s[i] \notin Digit
    THEN CHOOSE i \in start..Len(s) :
             s[i] \notin Digit /\ \A j \in start..(i - 1) : s[j] \in Digit
    ELSE Len(s) + 1

\* The length of the longest common prefix of s and t.
commonPrefixLen(s, t) ==
    LET m == IF Len(s) < Len(t) THEN Len(s) ELSE Len(t)
        same(k) == \A i \in 1..k : s[i] = t[i]
    IN  CHOOSE k \in 0..m : same(k) /\ (k = m \/ ~same(k + 1))

-----------------------------------------------------------------------------
(* float64 values                                                          *)

Fin(neg, mant, exp) == [cls |-> "fin", neg |-> neg, mant |-> mant, exp |-> exp]
Inf(neg) == [cls |-> "inf", neg |-> neg]
NaN == [cls |-> "nan"]
Zero(neg) == Fin(neg, 0, 0)

IsZero(v) == v.cls = "fin" /\ v.mant = 0

-----------------------------------------------------------------------------
(* strconv.ParseFloat(s, 64), decimal and special forms                    *)

ErrSyntax == "strconv.ErrSyntax"
ErrRange == "strconv.ErrRange"
NoError == "nil"

InfinityStr == <<"i", "n", "f", "i", "n", "i", "t", "y">>
NanStr == <<"n", "a", "n">>

\* strconv's special(s): [ok, val, n] with n the number of characters used.
\* A sign may precede "inf" and "infinity" only; case is ignored.
NotSpecial == [ok |-> FALSE, val |-> Zero(FALSE), n |-> 0]

\* k is the length of the common prefix with "infinity": anything longer
\* than "inf" that is not all of "infinity" uses "inf" only.
specialInf(neg, nsign, k) ==
    IF k = 8 THEN [ok |-> TRUE, val |-> Inf(neg), n |-> nsign + 8]
    ELSE IF k >= 3 THEN [ok |-> TRUE, val |-> Inf(neg), n |-> nsign + 3]
    ELSE NotSpecial

special(s) ==
    IF Len(s) = 0 THEN NotSpecial
    ELSE IF s[1] \in {"+", "-"}
    THEN specialInf(s[1] = "-", 1,
                    commonPrefixLen(LowerStr(Tail(s)), InfinityStr))
    ELSE IF s[1] \in {"i", "I"}
    THEN specialInf(FALSE, 0, commonPrefixLen(LowerStr(s), InfinityStr))
    ELSE IF s[1] \in {"n", "N"} /\ commonPrefixLen(LowerStr(s), NanStr) = 3
    THEN [ok |-> TRUE, val |-> NaN, n |-> 3]
    ELSE NotSpecial

\* strconv's readFloat(s) for base 10: [ok, neg, intd, fracd, e, n], the
\* sign, the digits before and after the point, the exponent and the number
\* of characters used.  sg is the length of the sign, i1 the index after the
\* digits before the point, i2 the index after the mantissa, j the index of
\* the first exponent digit and jend the index after the last.
BadFloat ==
    [ok |-> FALSE, neg |-> FALSE, intd |-> <<>>, fracd |-> <<>>, e |-> 0,
     n |-> 0]

readResult(s, sg, i1, i2, e, n) ==
    [ok |-> TRUE, neg |-> sg = 1 /\ s[1] = "-",
     intd |-> SubSeq(s, sg + 1, i1 - 1),
     fracd |-> SubSeq(s, i1 + 1, i2 - 1), e |-> e, n |-> n]

readExpDigits(s, sg, i1, i2, eneg, j, jend) ==
    IF jend = j THEN BadFloat
    ELSE readResult(s, sg, i1, i2,
                    (IF eneg THEN -1 ELSE 1) * DigitsToNat(SubSeq(s, j, jend - 1)),
                    jend - 1)

readExp(s, sg, i1, i2) ==
    IF i2 <= Len(s) /\ Lower(s[i2]) = "e"
    THEN IF i2 + 1 <= Len(s) /\ s[i2 + 1] \in {"+", "-"}
         THEN readExpDigits(s, sg, i1, i2, s[i2 + 1] = "-", i2 + 2,
                            NonDigitFrom(s, i2 + 2))
         ELSE readExpDigits(s, sg, i1, i2, FALSE, i2 + 1,
                            NonDigitFrom(s, i2 + 1))
    ELSE readResult(s, sg, i1, i2, 0, i2 - 1)

readFrac(s, sg, i1) ==
    IF i1 <= Len(s) /\ s[i1] = "."
    THEN IF NonDigitFrom(s, i1 + 1) - 2 = sg
         THEN BadFloat  \* no digit on either side of the point
         ELSE readExp(s, sg, i1, NonDigitFrom(s, i1 + 1))
    ELSE IF i1 = sg + 1 THEN BadFloat  \* no digit at all
    ELSE readExp(s, sg, i1, i1)

readFloat(s) ==
    IF Len(s) > 0 /\ s[1] \in {"+", "-"}
    THEN readFrac(s, 1, NonDigitFrom(s, 2))
    ELSE readFrac(s, 0, NonDigitFrom(s, 1))

\* The float64 a decimal denotes, with strconv's range handling: more than
\* the largest float64 is +-Inf with ErrRange, less than half the smallest
\* denormal is 0 with no error.  d is the digits without the zeros at
\* either end, top the decimal exponent of the first digit.
atofRange(neg, mant, exp, top, mant9) ==
    IF top > 308 \/ (top = 308 /\ mant9 > 179769313)
    THEN [val |-> Inf(neg), err |-> ErrRange]
    ELSE IF top < -324 \/ (top = -324 /\ mant9 <= 247032822)
    THEN [val |-> Zero(neg), err |-> NoError]
    ELSE [val |-> Fin(neg, mant, exp), err |-> NoError]

atofDigits(neg, d, exp) ==
    IF Len(d) = 0 THEN [val |-> Zero(neg), err |-> NoError]
    ELSE atofRange(neg, DigitsToNat(d), exp, Len(d) - 1 + exp,
                   DigitsToNat(d) * Pow10(9 - Len(d)))

atofStrip(neg, d1, exp, tz) ==
    atofDigits(neg, SubSeq(d1, 1, Len(d1) - tz), exp + tz)

atofLead(neg, d1, exp) == atofStrip(neg, d1, exp, TrailingZeros(d1))

atof64(neg, intd, fracd, e) ==
    atofLead(neg, StripLeadingZeros(intd \o fracd), e - Len(fracd))

SyntaxError == [val |-> Zero(FALSE), err |-> ErrSyntax]

parseRead(s, rf) ==
    IF ~rf.ok \/ rf.n # Len(s) THEN SyntaxError
    ELSE atof64(rf.neg, rf.intd, rf.fracd, rf.e)

parseSpecial(s, sp) ==
    IF sp.ok
    THEN IF sp.n = Len(s) THEN [val |-> sp.val, err |-> NoError]
         ELSE SyntaxError
    ELSE parseRead(s, readFloat(s))

\* strconv.ParseFloat(s, 64): [val, err].
ParseFloat(s) == parseSpecial(s, special(s))

-----------------------------------------------------------------------------
(* fmt.Sprintf("%f", f): fixed point, six digits after the point           *)

\* Natural numbers of any size as sequences of decimal digits (0..9), most
\* significant first, for the values a float64 takes beyond the integers of
\* the model.
NatDigits(s) == SubSeq([i \in 1..Len(s) |-> DigitVal(s[i])], 1, Len(s))
DigitChars(ds) ==
    SubSeq([i \in 1..Len(ds) |-> DigitChar(ds[i])], 1, Len(ds))

\* ds / 2, the remainder dropped, without the zero a leading 1 leaves.
\* (SubSeq has the digits computed once, when the sequence is made.)
half(ds) ==
    SubSeq([i \in 1..Len(ds) |->
               (ds[i] \div 2) + (IF i > 1 /\ ds[i - 1] % 2 = 1 THEN 5 ELSE 0)],
           IF Len(ds) > 1 /\ ds[1] < 2 THEN 2 ELSE 1, Len(ds))

\* 2 * ds.
double(ds) ==
    (IF ds[1] >= 5 THEN <<1>> ELSE <<>>)
        \o SubSeq([i \in 1..Len(ds) |->
                      ((2 * ds[i]) % 10)
                          + (IF i < Len(ds) /\ ds[i + 1] >= 5 THEN 1 ELSE 0)],
                  1, Len(ds))

\* ds + 1, k being the number of nines at the end of ds.
incrementAt(ds, k) ==
    IF k = Len(ds) THEN <<1>> \o [i \in 1..k |-> 0]
    ELSE SubSeq([i \in 1..Len(ds) |->
                    IF i < Len(ds) - k THEN ds[i]
                    ELSE IF i = Len(ds) - k THEN ds[i] + 1
                    ELSE 0],
                1, Len(ds))

increment(ds) ==
    incrementAt(ds, Cardinality({k \in 1..Len(ds) :
                                    \A i \in (Len(ds) - k + 1)..Len(ds) :
                                        ds[i] = 9}))

\* 2^53: a float64 has 53 bits of mantissa.
TwoTo53 == <<9, 0, 0, 7, 1, 9, 9, 2, 5, 4, 7, 4, 0, 9, 9, 2>>

BelowTwoTo53(ds) ==
    \/ Len(ds) < Len(TwoTo53)
    \/ /\ Len(ds) = Len(TwoTo53)
       /\ \E i \in 1..Len(ds) :
              /\ ds[i] < TwoTo53[i]
              /\ \A j \in 1..(i - 1) : ds[j] = TwoTo53[j]

\* ds / 2^n and ds * 2^n, by halves of the count: the digits are computed
\* before they are passed on.
halving[p \in Seq(0..9) \X Nat] ==
    IF p[2] = 0 \/ p[1] = <<0>> THEN p[1]
    ELSE IF p[2] = 1 THEN half(p[1])
    ELSE halving[<<halving[<<p[1], p[2] \div 2>>], p[2] - (p[2] \div 2)>>]

doubling[p \in Seq(0..9) \X Nat] ==
    IF p[2] = 0 \/ p[1] = <<0>> THEN p[1]
    ELSE IF p[2] = 1 THEN double(p[1])
    ELSE doubling[<<doubling[<<p[1], p[2] \div 2>>], p[2] - (p[2] \div 2)>>]

halveN(ds, n) == halving[<<ds, n>>]

shiftUp(ds, n) == doubling[<<ds, n>>]

\* A number of bits ds has beyond 53 for certain: ds >= 10^(Len(ds) - 1),
\* and 10^k >= 2^(3321 k / 1000).
shiftEstimate(ds) ==
    IF ((Len(ds) - 1) * 3321) \div 1000 > 53
    THEN (((Len(ds) - 1) * 3321) \div 1000) - 53
    ELSE 0

\* The number of bits ds has beyond 53, ds being what n halvings left.
RECURSIVE shiftFrom(_, _)
shiftFrom(ds, n) ==
    IF BelowTwoTo53(ds) THEN n ELSE shiftFrom(half(ds), n + 1)

shiftOf(ds) ==
    shiftFrom(halveN(ds, shiftEstimate(ds)), shiftEstimate(ds))

\* Round to nearest, ties to even: m is the 53 bits kept of ds, prev the 54,
\* n the number of bits dropped.  The last bit dropped is set, and a bit
\* before it is set or m is odd.
roundsUp(ds, m, prev, n) ==
    /\ n > 0
    /\ prev[Len(prev)] % 2 = 1
    /\ (shiftUp(prev, n - 1) # ds \/ m[Len(m)] % 2 = 1)

roundBits(ds, n) ==
    IF roundsUp(ds, halveN(ds, n), halveN(ds, IF n > 0 THEN n - 1 ELSE 0), n)
    THEN increment(halveN(ds, n))
    ELSE halveN(ds, n)

\* The float64 nearest to the natural number ds, in digits: the bits
\* beyond 53 are dropped, the rest rounded and put back in place.
nearestFloat(ds) ==
    DigitChars(shiftUp(roundBits(ds, shiftOf(ds)), shiftOf(ds)))

\* ds / 10^n rounded to the nearest natural number, halves to the even one.
dropDigits(ds, n) ==
    IF n >= Len(ds) THEN <<0>> ELSE SubSeq(ds, 1, Len(ds) - n)

roundDigits(ds, n) ==
    IF /\ n > 0
       /\ n <= Len(ds)
       /\ \/ ds[Len(ds) - n + 1] > 5
          \/ /\ ds[Len(ds) - n + 1] = 5
             /\ \/ \E i \in (Len(ds) - n + 2)..Len(ds) : ds[i] # 0
                \/ dropDigits(ds, n)[Len(dropDigits(ds, n))] % 2 = 1
    THEN increment(dropDigits(ds, n))
    ELSE dropDigits(ds, n)

\* Below 10^-307 the float64s are 2^-1074 apart or, from 2^-1022 on, closer
\* than two decimals of nine digits: a value there is told by the number of
\* steps of 2^-1074 nearest to it.
Tiny(v) ==
    v.cls = "fin" /\ v.mant # 0 /\ Len(NatToDigits(v.mant)) - 1 + v.exp <= -308

denormalUnits(v) ==
    roundDigits(shiftUp(NatDigits(NatToDigits(v.mant)), 1074), -v.exp)

\* Go's == on float64: +0 and -0 are equal, NaN equals nothing, and two
\* decimals are equal when the float64 nearest to them is the same.
FloatEq(a, b) ==
    \/ IsZero(a) /\ IsZero(b)
    \/ a.cls = "fin" /\ b.cls = "fin" /\ a = b
    \/ /\ Tiny(a)
       /\ Tiny(b)
       /\ a.neg = b.neg
       /\ denormalUnits(a) = denormalUnits(b)
    \/ a.cls = "inf" /\ b.cls = "inf" /\ a.neg = b.neg

\* 5^6: t / (2 * 10^6) = t / (2^7 * 5^6), and the bits of t / 5^6 are the
\* bits of its float64.
FiveTo6 == 15625

\* The number of bits of q < 2^31.
bitLen(q) == Cardinality({k \in 0..30 : 2^k <= q})

\* 2^n modulo 5^6.
twoToMod[n \in Nat] ==
    IF n = 0 THEN 1
    ELSE IF n % 2 = 1 THEN (2 * twoToMod[n - 1]) % FiveTo6
    ELSE (twoToMod[n \div 2] * twoToMod[n \div 2]) % FiveTo6

\* The remainder of r * 2^n by 5^6: what is left after n more bits.
bitsAfter(r, n) == (r * twoToMod[n]) % FiveTo6

\* The remainder after the bits of r / 5^6 < 1 up to its first set bit.
firstBit(r) ==
    (r * 2^(CHOOSE k \in 1..14 :
                r * 2^k >= FiveTo6 /\ r * 2^(k - 1) < FiveTo6)) - FiveTo6

\* The remainder of t / 5^6 after 53 significant bits; t is no multiple of
\* 5^6.
remainderAfter53(q, r) ==
    IF q = 0 THEN bitsAfter(firstBit(r), 52)
    ELSE IF bitLen(q) >= 53 THEN r
    ELSE bitsAfter(r, 53 - bitLen(q))

\* How the float64 nearest to t / (2 * 10^6), t odd, lies to it: "equal"
\* when t / 5^6 is a whole number (of less than 53 bits), else "above" or
\* "below" as the bits after the 53rd are more or less than half.
tieSide(t) ==
    IF t % FiveTo6 = 0 THEN "equal"
    ELSE IF 2 * remainderAfter53(t \div FiveTo6, t % FiveTo6) > FiveTo6
    THEN "above"
    ELSE "below"

\* q + r / p rounded to an integer: the decimal and its float64 round alike
\* unless the decimal is half way, r / p = 5 / 10; then the float64 decides,
\* and if it is half way too the even neighbour is taken.
\* q + 1/2 is (2q + 1) / 2, and it stands for (2q + 1) / (2 * 10^6).
roundQuot(q, r, p) ==
    IF 2 * r > p THEN q + 1
    ELSE IF 2 * r < p THEN q
    ELSE IF tieSide(2 * q + 1) = "above" THEN q + 1
    ELSE IF tieSide(2 * q + 1) = "below" THEN q
    ELSE IF q % 2 = 1 THEN q + 1
    ELSE q

roundPow(mant, p) == roundQuot(mant \div p, mant % p, p)

RoundDiv(mant, drop) ==
    IF drop > Len(NatToDigits(mant)) THEN 0 ELSE roundPow(mant, Pow10(drop))

\* digits, at least seven of them, with the point before the last six.
pointSix(sign, digits) ==
    sign \o SubSeq(digits, 1, Len(digits) - 6) \o <<".">>
         \o SubSeq(digits, Len(digits) - 5, Len(digits))

padSeven(sign, digits) ==
    IF Len(digits) < 7 THEN pointSix(sign, Zeros(7 - Len(digits)) \o digits)
    ELSE pointSix(sign, digits)

\* The digits of |f| * 10^6 rounded to an integer, f being the float64
\* nearest to mant * 10^exp: a whole number is printed as the float64 it is
\* stored as, a fraction of at most six digits as it is written, a longer
\* one rounded.
digitsTimesMillion(mant, exp) ==
    IF exp >= 0
    THEN nearestFloat(NatDigits(NatToDigits(mant) \o Zeros(exp))) \o Zeros(6)
    ELSE IF exp >= -6
    THEN NatToDigits(mant) \o Zeros(exp + 6)
    ELSE NatToDigits(RoundDiv(mant, -6 - exp))

\* strconv's %f of a float64 with precision 6: the exact decimal expansion
\* of the float64, rounded to six digits after the point.
FormatF(v) ==
    IF v.cls = "nan" THEN <<"N", "a", "N">>
    ELSE IF v.cls = "inf"
    THEN (IF v.neg THEN <<"-">> ELSE <<"+">>) \o <<"I", "n", "f">>
    ELSE padSeven(IF v.neg THEN <<"-">> ELSE <<>>,
                  StripLeadingZeros(digitsTimesMillion(v.mant, v.exp)))

-----------------------------------------------------------------------------
(* encoding/json: the kind of the JSON value a payload holds               *)

Quote == "\""

\* -? (0 | [1-9][0-9]*) (. [0-9]+)? ([eE] [+-]? [0-9]+)?
\* sg is the length of the sign, i1 the index after the integer digits, i2
\* the index after the fraction, j the index of the first exponent digit.
jsonExpDigits(d, j, jend) == jend > j /\ jend = Len(d) + 1

jsonExp(d, i2) ==
    IF i2 <= Len(d) /\ d[i2] \in {"e", "E"}
    THEN IF i2 + 1 <= Len(d) /\ d[i2 + 1] \in {"+", "-"}
         THEN jsonExpDigits(d, i2 + 2, NonDigitFrom(d, i2 + 2))
         ELSE jsonExpDigits(d, i2 + 1, NonDigitFrom(d, i2 + 1))
    ELSE i2 = Len(d) + 1

jsonFracDigits(d, i1, i2) == i2 > i1 + 1 /\ jsonExp(d, i2)

jsonFrac(d, sg, i1) ==
    /\ i1 > sg + 1
    /\ (i1 > sg + 2 => d[sg + 1] # "0")
    /\ IF i1 <= Len(d) /\ d[i1] = "."
       THEN jsonFracDigits(d, i1, NonDigitFrom(d, i1 + 1))
       ELSE jsonExp(d, i1)

IsJSONNumber(d) ==
    IF Len(d) > 0 /\ d[1] = "-" THEN jsonFrac(d, 1, NonDigitFrom(d, 2))
    ELSE jsonFrac(d, 0, NonDigitFrom(d, 1))

IsJSONString(d) ==
    /\ Len(d) >= 2
    /\ d[1] = Quote
    /\ d[Len(d)] = Quote
    /\ \A i \in 2..(Len(d) - 1) : d[i] # Quote /\ d[i] \notin ControlChar

\* "other" is an object, an array or a payload that is not valid JSON: both
\* json.Unmarshal calls of UnmarshalJSON fail on it.
JSONKind(d) ==
    IF IsJSONString(d) THEN "string"
    ELSE IF IsJSONNumber(d) THEN "number"
    ELSE IF d = <<"n", "u", "l", "l">> THEN "null"
    ELSE IF d = <<"t", "r", "u", "e">> \/ d = <<"f", "a", "l", "s", "e">>
    THEN "bool"
    ELSE "other"

\* The Go string a JSON string literal without escapes decodes to.
Unquote(d) == SubSeq(d, 2, Len(d) - 1)

\* json.Unmarshal(data, &s) with s a string: [err, s].  null leaves s as it
\* is (the empty string) and is no error.
UnmarshalString(d, kind) ==
    IF kind = "string" THEN [err |-> FALSE, s |-> Unquote(d)]
    ELSE IF kind = "null" THEN [err |-> FALSE, s |-> <<>>]
    ELSE [err |-> TRUE, s |-> <<>>]

\* json.Unmarshal(data, &f) with f a float64: [err, f].  A number literal
\* ParseFloat rejects (out of range) is an UnmarshalTypeError.
floatOf(pf) ==
    IF pf.err = NoError THEN [err |-> FALSE, f |-> pf.val]
    ELSE [err |-> TRUE, f |-> Zero(FALSE)]

UnmarshalFloat(d, kind) ==
    IF kind = "number" THEN floatOf(ParseFloat(d))
    ELSE IF kind = "null" THEN [err |-> FALSE, f |-> Zero(FALSE)]
    ELSE [err |-> TRUE, f |-> Zero(FALSE)]

-----------------------------------------------------------------------------
(* Number                                                                  *)

\* func (n Number) IsUndefined() bool
IsUndefined(n) == n = <<>>

\* func (n Number) Float() float64: ParseFloat's value, its error dropped.
Float(n) == ParseFloat(n).val

\* storeString keeping the number the string parses to, not the string.
storeStringFormatted(n, us) ==
    IF ParseFloat(us.s).err = NoError
    THEN [n |-> FormatF(ParseFloat(us.s).val), err |-> NoError]
    ELSE [n |-> n, err |-> NoError]

\* storeString without the ParseFloat check.
storeStringUnchecked(n, us) == [n |-> us.s, err |-> NoError]

\* The string branch: *n = Number(s) when s parses, *n as it is otherwise;
\* nil.
storeString(n, us) ==
    IF ParseFloat(us.s).err = NoError THEN [n |-> us.s, err |-> NoError]
    ELSE [n |-> n, err |-> NoError]

\* storeFloat taking the float64 zero value for "nothing decoded".
storeFloatNonZero(n, uf) ==
    IF ~uf.err /\ ~IsZero(uf.f) THEN [n |-> FormatF(uf.f), err |-> NoError]
    ELSE [n |-> n, err |-> NoError]

\* The float branch: *n = Number(fmt.Sprintf("%f", f)) when the payload is
\* a number, *n as it is otherwise; nil.
storeFloat(n, uf) ==
    IF ~uf.err THEN [n |-> FormatF(uf.f), err |-> NoError]
    ELSE [n |-> n, err |-> NoError]

\* The two branches, n being what *n holds when they are reached.
unmarshalKind(n, d, kind) ==
    IF ~UnmarshalString(d, kind).err
    THEN storeString(n, UnmarshalString(d, kind))
    ELSE storeFloat(n, UnmarshalFloat(d, kind))

\* UnmarshalJSON without its first statement: *n keeps what it held.
resetKept(n) == n

\* *n = "": the first statement of UnmarshalJSON.
reset(n) == <<>>

\* func (n *Number) UnmarshalJSON(data []byte) error, n being what the
\* receiver holds when it is called: [n, err], the value *n holds afterwards
\* and the error returned.
UnmarshalJSON(n, d) == unmarshalKind(reset(n), d, JSONKind(d))

\* var n Number: the zero value, as of a field of a struct just declared.
ZeroNumber == <<>>

-----------------------------------------------------------------------------
(* The inputs of the Number operations                                     *)

MaxMant == 12
MaxScale == 7

\* The JSON number literal of m / 10^k: "0.0000004" for m = 4, k = 7.
DecimalText(m, k) ==
    LET d == NatToDigits(m)
        padded == IF Len(d) < k + 1 THEN Zeros(k + 1 - Len(d)) \o d ELSE d
    IN  IF k = 0 THEN padded
        ELSE SubSeq(padded, 1, Len(padded) - k) \o <<".">>
                 \o SubSeq(padded, Len(padded) - k + 1, Len(padded))

GeneratedNumbers == {DecimalText(m, k) : m \in 0..MaxMant, k \in 0..MaxScale}

\* Go strings: the contents of JSON string literals, and the strings Candles
\* converts to Number.
NumberStrings ==
    {<<>>, <<"0">>, <<"2">>, <<"1", ".", "5">>, <<"1", "0", "0", ".", "5">>,
     <<"2", "0", "1">>, <<"-", "2", ".", "5">>, <<"0", ".", "1", "0">>,
     <<"0", "0", "7">>, <<".", "5">>, <<"5", ".">>, <<"+", "3">>,
     <<"1", "e", "5">>, <<"1", "E", "+", "2">>, <<"1", "e", "-", "7">>,
     <<"1", "e", "4", "0", "0">>, <<"-", "1", "e", "4", "0", "0">>,
     <<"1", "e", "-", "4", "0", "0">>, <<"N", "a", "N">>, <<"I", "n", "f">>,
     <<"-", "i", "n", "f">>, <<"i", "n", "f", "i", "n", "i", "t", "y">>,
     <<"n", "/", "a">>, <<"a", "b", "c">>, <<"1", "e">>, <<".">>,
     <<"1", ".", "2", ".", "3">>, <<"+", "n", "a", "n">>,
     <<"i", "n", "f", "i", "n">>, <<"-">>,
     <<"0", ".", "0", "0", "0", "0", "0", "0">>, <<"1", "2", ",", "5">>}

\* JSON number literals.
BareNumbers ==
    {<<"0">>, <<"-", "0">>, <<"2">>, <<"1", ".", "5">>,
     <<"1", "0", "0", ".", "5">>, <<"-", "2", ".", "5">>,
     <<"0", ".", "0", "0", "0", "0", "0", "0", "4">>,
     <<"0", ".", "0", "0", "0", "0", "0", "0", "6">>,
     <<"0", ".", "0", "0", "0", "0", "0", "2", "5">>,
     <<"0", ".", "0", "0", "0", "0", "0", "3", "5">>,
     <<"0", ".", "0", "0", "7", "8", "1", "2", "5">>,
     <<"0", ".", "0", "2", "3", "4", "3", "7", "5">>,
     <<"1", ".", "2", "3", "4", "5", "6", "7", "8">>,
     <<"1", "e", "-", "7">>, <<"1", "E", "2">>, <<"1", "e", "2", "2">>,
     <<"1", "e", "4", "0", "0">>, <<"-", "1", "e", "4", "0", "0">>,
     <<"1", "2", "3", "4", "5", ".", "6", "7", "8">>,
     <<"0", ".", "9", "9", "9", "9", "9", "9", "6">>,
     <<"-", "0", ".", "0", "0", "0", "0", "0", "0", "4">>,
     <<"1", "e", "-", "4", "0", "0">>}

\* JSON null and the booleans.
Literals ==
    {<<"n", "u", "l", "l">>, <<"t", "r", "u", "e">>,
     <<"f", "a", "l", "s", "e">>}

\* Objects, arrays and payloads that are not valid JSON.
OtherPayloads ==
    {<<"0", "0", "7">>, <<".", "5">>, <<"5", ".">>, <<"+", "3">>,
     <<"1", "e">>, <<"N", "a", "N">>, <<"a", "b", "c">>, <<>>,
     <<"n", "u", "l">>, <<Quote, "a", "b", "c">>, <<"{", "}">>,
     <<"[", "]">>, <<"[", "1", "]">>,
     <<"{", Quote, "a", Quote, ":", "1", "}">>, <<Quote, "\t", Quote>>,
     <<Quote, "1", "\n", Quote>>}

Quoted(s) == <<Quote>> \o s \o <<Quote>>

\* Every payload UnmarshalJSON is called with.
Payloads ==
    {Quoted(s) : s \in NumberStrings} \cup BareNumbers \cup GeneratedNumbers
        \cup Literals \cup OtherPayloads

NotCalled == [called |-> FALSE]
Returned(v) == [called |-> TRUE, val |-> v]

-----------------------------------------------------------------------------
(* The Number operations as steps                                          *)

\* What a Number holds: nothing, a number, or a string that is no number.
Holds(n) ==
    IF IsUndefined(n) THEN "nothing"
    ELSE IF ParseFloat(n).err = NoError THEN "number"
    ELSE "other"

\* var n Number: the zero value, before anything is decoded into it.
InitNumber ==
    /\ num = <<>>
    /\ data = <<>>
    /\ uerr = "none"
    /\ flt = NotCalled
    /\ undef = NotCalled
    /\ origin = "zero"
    /\ held = "nothing"

\* Number(s): the conversion Candles applies to the strings of a response.
Convert ==
    \E s \in NumberStrings :
        /\ num' = s
        /\ origin' = "conversion"
        /\ data' = <<>>
        /\ uerr' = "none"
        /\ flt' = NotCalled
        /\ undef' = NotCalled
        /\ held' = "nothing"
        /\ UNCHANGED clientVars

\* n.UnmarshalJSON(d)
UnmarshalJSONCall ==
    \E d \in Payloads :
        /\ num' = UnmarshalJSON(num, d).n
        /\ uerr' = UnmarshalJSON(num, d).err
        /\ data' = d
        /\ held' = Holds(num)
        /\ origin' = "UnmarshalJSON"
        /\ flt' = NotCalled
        /\ undef' = NotCalled
        /\ UNCHANGED clientVars

\* n.Float()
FloatCall ==
    /\ flt' = Returned(Float(num))
    /\ UNCHANGED <<num, data, uerr, undef, origin, held>>
    /\ UNCHANGED clientVars

\* n.IsUndefined()
IsUndefinedCall ==
    /\ undef' = Returned(IsUndefined(num))
    /\ UNCHANGED <<num, data, uerr, flt, origin, held>>
    /\ UNCHANGED clientVars

NextNumber ==
    \/ Convert
    \/ UnmarshalJSONCall
    \/ FloatCall
    \/ IsUndefinedCall

-----------------------------------------------------------------------------
(* Client: errors                                                          *)

\* type Error struct { Message string; Cause error }.  ptr and id name the
\* allocation: the package-level variables are one allocation each, and the
\* Errors allocated while the program runs are numbered from 1.
NilError == [ptr |-> "nil", id |-> 0, Message |-> "", Cause |-> "nil"]
ErrMissingAPIKey ==
    [ptr |-> "ErrMissingAPIKey", id |-> 0, Message |-> "missing api key",
     Cause |-> "nil"]
ErrBadRequest ==
    [ptr |-> "ErrBadRequest", id |-> 0, Message |-> "bad request",
     Cause |-> "nil"]
ErrUnauthorized ==
    [ptr |-> "ErrUnauthorized", id |-> 0, Message |-> "unauthorized",
     Cause |-> "nil"]
ErrForbidden ==
    [ptr |-> "ErrForbidden", id |-> 0, Message |-> "access forbidden",
     Cause |-> "nil"]
ErrNotFound ==
    [ptr |-> "ErrNotFound", id |-> 0, Message |-> "resource not found",
     Cause |-> "nil"]
ErrUnknown ==
    [ptr |-> "ErrUnknown", id |-> 0, Message |-> "unknown error",
     Cause |-> "nil"]

Singletons ==
    {ErrMissingAPIKey, ErrBadRequest, ErrUnauthorized, ErrForbidden,
     ErrNotFound, ErrUnknown}

\* var ( ErrMissingAPIKey = &Error{Message: "missing api key"} ... ): what
\* each package-level variable points to when the package is initialised.
DeclaredErrors ==
    [v \in {e.ptr : e \in Singletons} |->
        [Message |-> (CHOOSE e \in Singletons : e.ptr = v).Message,
         Cause |-> (CHOOSE e \in Singletons : e.ptr = v).Cause]]

\* The error a caller holds, as it reads it now: the pointer, and the Message
\* and Cause behind it.
Pointee(e) ==
    IF e.ptr \in DOMAIN errorVars
    THEN [e EXCEPT !.Message = errorVars[e.ptr].Message,
                   !.Cause = errorVars[e.ptr].Cause]
    ELSE e

\* The package-level Errors once a method has returned e: an Error returned
\* through a package-level variable holds the Message and Cause the method
\* left in it.
Written(e) ==
    IF e.ptr \in DOMAIN errorVars
    THEN [errorVars EXCEPT ![e.ptr] = [Message |-> e.Message,
                                       Cause |-> e.Cause]]
    ELSE errorVars

\* wrapRequestError filling in and returning one package-level Error.
wrapRequestErrorShared(err) ==
    [ptr |-> "new", id |-> 0, Message |-> "request failed", Cause |-> err]

\* return &Error{Message: "request failed", Cause: err}: the next free
\* allocation.
wrapRequestError(err) ==
    [ptr |-> "new", id |-> allocs + 1, Message |-> "request failed",
     Cause |-> err]

StatusOK == 200
StatusBadRequest == 400
StatusUnauthorized == 401
StatusForbidden == 403
StatusNotFound == 404

\* errNonOKResponse with the case of 403 returning the error of 401.
errNonOKResponseMerged(code) ==
    CASE code = StatusBadRequest -> ErrBadRequest
      [] code = StatusUnauthorized -> ErrUnauthorized
      [] code = StatusForbidden -> ErrUnauthorized
      [] code = StatusNotFound -> ErrNotFound
      [] OTHER -> ErrUnknown

\* errNonOKResponse allocating the Error it returns.
errNonOKResponseFresh(code) ==
    [ptr |-> "new", id |-> allocs + 1,
     Message |-> CASE code = StatusBadRequest -> "bad request"
                   [] code = StatusUnauthorized -> "unauthorized"
                   [] code = StatusForbidden -> "access forbidden"
                   [] code = StatusNotFound -> "resource not found"
                   [] OTHER -> "unknown error",
     Cause |-> "nil"]

errNonOKResponse(code) ==
    CASE code = StatusBadRequest -> ErrBadRequest
      [] code = StatusUnauthorized -> ErrUnauthorized
      [] code = StatusForbidden -> ErrForbidden
      [] code = StatusNotFound -> ErrNotFound
      [] OTHER -> ErrUnknown

-----------------------------------------------------------------------------
(* Client: construction                                                    *)

apiKeyHeader == "x-api-key"
DefaultClient == "http.DefaultClient"

\* The process environment's WALLEX_API_KEY: unset, set to the empty string,
\* or set to a key.
EnvValues ==
    {[set |-> FALSE, val |-> ""], [set |-> TRUE, val |-> ""],
     [set |-> TRUE, val |-> "key-env"]}

\* os.Getenv: the value, or the empty string when the variable is unset.
Getenv(e) == IF e.set THEN e.val ELSE ""

\* ClientOptions: APIKey (possibly empty) and HTTPClient (possibly nil).
Options ==
    [APIKey : {"", "key-opt"}, HTTPClient : {"nil", "custom"}]

NoOptions == [APIKey |-> "", HTTPClient |-> "nil"]

\* The Client before New has run.
NoClient == [apiKey |-> "", httpClient |-> "nil"]

\* New without the read of the environment.
NewWithoutEnv(o, e) ==
    [apiKey |-> "",
     httpClient |-> IF o.HTTPClient # "nil" THEN o.HTTPClient
                    ELSE DefaultClient]

\* func New(opt ClientOptions) *Client, with e the environment it reads.
New(o, e) ==
    [apiKey |-> IF o.APIKey = "" THEN Getenv(e) ELSE "",
     httpClient |-> IF o.HTTPClient # "nil" THEN o.HTTPClient
                    ELSE DefaultClient]

-----------------------------------------------------------------------------
(* Client: requests, answers, results                                      *)

PublicMethods ==
    {"Markets", "Currencies", "MarketOrders", "MarketTrades", "Candles"}
AuthMethods ==
    {"Profile", "Balances", "FeeLevels", "BankingCards", "BankAccounts",
     "PlaceOrder", "CancelOrder", "Order", "OpenOrders", "Trades"}

\* One HTTP request: the transport handle it is sent through, the verb, the
\* path under baseURL and the argument appended to it, the query (key/value
\* pairs; url.Values.Encode orders them by key), the headers and the JSON
\* body (key/value pairs).
Request(via, verb, path, tail, query, header, body) ==
    [via |-> via, verb |-> verb, path |-> path, tail |-> tail,
     query |-> query, header |-> header, body |-> body]

\* GetRequest with the credential added as for the account endpoints.
GetRequestWithKey(via, path, query) ==
    Request(via, "GET", path, <<>>, query, {<<apiKeyHeader, client.apiKey>>},
            {})

\* c.httpClient.Get(url) and http.Get(url): a GET with no header.
GetRequest(via, path, query) ==
    Request(via, "GET", path, <<>>, query, {}, {})

\* http.NewRequest, req.Header.Add(apiKeyHeader, c.apiKey), c.httpClient.Do.
AuthRequest(c, verb, path, tail, query, body) ==
    Request(c.httpClient, verb, path, tail, query,
            {<<apiKeyHeader, c.apiKey>>}, body)

Nil == [kind |-> "nil"]
NoResult == [kind |-> "none"]
Value(nums) == [kind |-> "value", nums |-> nums]
Pair(ask, bid) == [kind |-> "pair", ask |-> ask, bid |-> bid]
CandleList(list) == [kind |-> "candles", list |-> list]
\* []*Market: the Numbers and the Symbol of each market.
MarketList(nums, symbols) ==
    [kind |-> "value", nums |-> nums, symbols |-> symbols]

NoAnswer == [kind |-> "none"]
NoArgs == [none |-> TRUE]

\* A finished call: what was sent, what the transport answered, and what the
\* method returned (or that it panicked).
Finished(method, args, reqs, answer, result, err) ==
    [method |-> method, args |-> args, reqs |-> reqs, answer |-> answer,
     outcome |-> "returned", result |-> result, err |-> err]

Panicked(method, args, reqs, answer) ==
    [method |-> method, args |-> args, reqs |-> reqs, answer |-> answer,
     outcome |-> "panicked", result |-> NoResult, err |-> NilError]

NoCall ==
    [method |-> "none", args |-> NoArgs, reqs |-> <<>>, answer |-> NoAnswer,
     outcome |-> "none", result |-> NoResult, err |-> NilError]

-----------------------------------------------------------------------------
(* Client: the transport's answers                                         *)

MaxItems == 2
MaxCandles == 2
MaxAllocs == 2

SeqsUpTo(S, k) == UNION {[1..j -> S] : j \in 0..k}

\* The JSON values a response holds where the result type has a Number.
BodyPayloads ==
    {Quoted(<<"1", "0", "0", ".", "5">>), Quoted(<<"n", "/", "a">>),
     <<"1", ".", "5">>, <<"n", "u", "l", "l">>,
     Quoted(<<"1", "e", "4", "0", "0">>)}

\* The strings a candle response holds in its o, h, l, c and v arrays.
CandleStrings == {<<"1", "0", "0", ".", "5">>, <<"n", "/", "a">>}

\* A response body.  json is what the body is:
\*   "garbage"   not valid JSON;
\*   "mismatch"  valid JSON whose "result" and "t" have a type the target
\*               struct cannot take;
\*   "envelope"  {"result": ...}, items being the JSON values of the result's
\*               Number fields, one per element of the result;
\*               Number fields, one per element of the result, and keys
\*               the keys of the "levels" objects of a fee response;
\*   "candles"   {"t": [...], "o": [...], "h": ..., "l": ..., "c": ..., "v": ...}.
Body(json, items, keys, ts, o, h, l, c, v) ==
    [json |-> json, items |-> items, keys |-> keys, t |-> ts, o |-> o,
     h |-> h, l |-> l, c |-> c, v |-> v]

GarbageBody == Body("garbage", <<>>, {}, <<>>, <<>>, <<>>, <<>>, <<>>, <<>>)
MismatchBody == Body("mismatch", <<>>, {}, <<>>, <<>>, <<>>, <<>>, <<>>, <<>>)
EnvelopeBody(items) ==
    Body("envelope", items, {}, <<>>, <<>>, <<>>, <<>>, <<>>, <<>>)

EnvelopeBodies == {EnvelopeBody(it) : it \in SeqsUpTo(BodyPayloads, MaxItems)}

\* The keys a "levels" object of a fee response has.
LevelKeys == {<<"1">>, <<"n", "/", "a">>}

\* {"result": {"default": {"levels": {key: {...}, ...}, ...}, ...}}
FeeLevelBody(items, keys) ==
    Body("envelope", items, keys, <<>>, <<>>, <<>>, <<>>, <<>>, <<>>)

\* A response without fee levels has no "levels" either.
FeeLevelBodies ==
    {FeeLevelBody(<<>>, {})}
        \cup {FeeLevelBody(it, ks) :
                 it \in SeqsUpTo(BodyPayloads, MaxItems) \ {<<>>},
                 ks \in SUBSET LevelKeys}

Timestamps(k) == [i \in 1..k |-> 60 * i]

CandleBodies ==
    {Body("candles", <<>>, {}, Timestamps(k), o, r, r, r, r) :
        k \in 0..MaxCandles,
        o \in SeqsUpTo(CandleStrings, MaxCandles),
        r \in SeqsUpTo(CandleStrings, MaxCandles)}

OneCandleBody ==
    Body("candles", <<>>, {}, Timestamps(1), <<<<"1">>>>, <<<<"2">>>>,
         <<<<"1">>>>, <<<<"2">>>>, <<<<"5">>>>)

BodiesFor(method) ==
    IF method = "Candles"
    THEN {GarbageBody, MismatchBody, EnvelopeBody(<<>>)} \cup CandleBodies
    ELSE IF method = "FeeLevels"
    THEN {GarbageBody, MismatchBody, OneCandleBody} \cup FeeLevelBodies
    ELSE {GarbageBody, MismatchBody, OneCandleBody} \cup EnvelopeBodies

TransportErrors == {"connection refused", "deadline exceeded"}
NonOKStatuses == {201, 204, 301, 400, 401, 403, 404, 500}

Failure(cause) ==
    [kind |-> "error", cause |-> cause, status |-> 0, body |-> GarbageBody]
Response(status, body) ==
    [kind |-> "response", cause |-> "nil", status |-> status, body |-> body]

\* What the transport may answer to a request of the method.
AnswersFor(method) ==
    {Failure(e) : e \in TransportErrors}
        \cup {Response(s, b) : s \in NonOKStatuses,
                               b \in {GarbageBody,
                                      EnvelopeBody(<<Quoted(<<"2">>)>>)}}
        \cup {Response(StatusOK, b) : b \in BodiesFor(method)}

-----------------------------------------------------------------------------
(* Client: decoding a 200 response                                         *)

DecodeError(body) ==
    IF body.json = "garbage" THEN "json: invalid character"
    ELSE IF body.json = "mismatch" THEN "json: cannot unmarshal"
    ELSE "nil"

\* The Number fields of a decoded result: each is given its JSON value by
\* Number.UnmarshalJSON.
DecodeNumbers(items) ==
    [i \in 1..Len(items) |-> UnmarshalJSON(ZeroNumber, items[i]).n]

\* json.NewDecoder(resp.Body).Decode(&result) into {"result": ...}: [err, val].
\* zero is what the result is when the body has no "result"; numbers tells
\* whether the result type has Number fields.
DecodeEnvelope(body, zero, numbers) ==
    IF DecodeError(body) # "nil" THEN [err |-> DecodeError(body), val |-> Nil]
    ELSE IF body.json = "envelope"
    THEN [err |-> "nil",
          val |-> Value(IF numbers THEN DecodeNumbers(body.items) ELSE <<>>)]
    ELSE [err |-> "nil", val |-> zero]

\* map[string]*FeeLevel: the Numbers of the fields and the Numbers that
\* are keys of the Levels maps.
FeeLevelMap(nums, keys) == [kind |-> "value", nums |-> nums, keys |-> keys]

\* Decode into {"result": map[string]*FeeLevel}: the Number fields are set
\* by Number.UnmarshalJSON, the keys of Levels (map[Number]*NamedFeeLevel)
\* are the key texts as they are.
DecodeFeeLevels(body) ==
    IF DecodeError(body) # "nil" THEN [err |-> DecodeError(body), val |-> Nil]
    ELSE IF body.json = "envelope"
    THEN [err |-> "nil",
          val |-> FeeLevelMap(DecodeNumbers(body.items), body.keys)]
    ELSE [err |-> "nil", val |-> Nil]

\* Conclude without the check of the decoder's error.
ConcludeUnchecked(method, args, req, ans, nil, decoded) ==
    IF ans.kind = "error"
    THEN Finished(method, args, <<req>>, ans, nil, wrapRequestError(ans.cause))
    ELSE IF ans.status # StatusOK
    THEN Finished(method, args, <<req>>, ans, nil, errNonOKResponse(ans.status))
    ELSE Finished(method, args, <<req>>, ans, decoded.val, NilError)

\* Conclude decoding the body before it looks at the status.
ConcludeDecodeFirst(method, args, req, ans, nil, decoded) ==
    IF ans.kind = "error"
    THEN Finished(method, args, <<req>>, ans, nil, wrapRequestError(ans.cause))
    ELSE IF decoded.err # "nil"
    THEN Finished(method, args, <<req>>, ans, nil, wrapRequestError(decoded.err))
    ELSE IF ans.status # StatusOK
    THEN Finished(method, args, <<req>>, ans, nil, errNonOKResponse(ans.status))
    ELSE Finished(method, args, <<req>>, ans, decoded.val, NilError)

\* What every method does with the transport's answer: the transport's
\* error wrapped, a status other than 200 mapped, the body decoded.
Conclude(method, args, req, ans, nil, decoded) ==
    IF ans.kind = "error"
    THEN Finished(method, args, <<req>>, ans, nil, wrapRequestError(ans.cause))
    ELSE IF ans.status # StatusOK
    THEN Finished(method, args, <<req>>, ans, nil, errNonOKResponse(ans.status))
    ELSE IF decoded.err # "nil"
    THEN Finished(method, args, <<req>>, ans, nil, wrapRequestError(decoded.err))
    ELSE Finished(method, args, <<req>>, ans, decoded.val, NilError)

-----------------------------------------------------------------------------
(* Client: the arguments of the calls                                      *)

BTCUSDT == <<"B", "T", "C", "U", "S", "D", "T">>
Symbols == {<<>>, BTCUSDT}
Sides == {<<>>, <<"B", "U", "Y">>}
OrderIDs ==
    {<<"i", "d", "1">>, <<"%", "z", "z">>, <<"a", "?", "%", "z", "z">>,
     <<"a", "\n">>}
Hour == <<"6", "0">>

\* *OrderParams
OrderParamsSet ==
    [Symbol : Symbols, Type : {<<>>, <<"L", "I", "M", "I", "T">>},
     Side : Sides, Price : {<<>>, <<"1", "0", "0", ".", "5">>},
     Quantity : {<<>>, <<"2">>}, ClientID : {<<>>, <<"i", "d", "1">>}]

\* MarshalOrderParams with omitempty on every field.
MarshalOrderParamsOmitEmpty(p) ==
    {kv \in {<<"symbol", Quoted(p.Symbol)>>, <<"type", Quoted(p.Type)>>,
             <<"side", Quoted(p.Side)>>, <<"price", Quoted(p.Price)>>,
             <<"quantity", Quoted(p.Quantity)>>,
             <<"client_id", Quoted(p.ClientID)>>} : kv[2] # Quoted(<<>>)}

\* json.Marshal(p): every field but client_id is written whatever its
\* value; client_id has omitempty.  Strings and Numbers are JSON strings.
MarshalOrderParams(p) ==
    {<<"symbol", Quoted(p.Symbol)>>, <<"type", Quoted(p.Type)>>,
     <<"side", Quoted(p.Side)>>, <<"price", Quoted(p.Price)>>,
     <<"quantity", Quoted(p.Quantity)>>}
        \cup (IF p.ClientID # <<>> THEN {<<"client_id", Quoted(p.ClientID)>>}
              ELSE {})

\* strconv.FormatInt(i, 10)
FormatInt(i) == IF i < 0 THEN <<"-">> \o NatToDigits(-i) ELSE NatToDigits(i)

HexDigit == Digit \cup {"a", "b", "c", "d", "e", "f", "A", "B", "C", "D", "E", "F"}


\* The least index of character ch in s, or Len(s) + 1.
IndexOf(s, ch) ==
    IF \E i \in 1..Len(s) : s[i] = ch
    THEN CHOOSE i \in 1..Len(s) :
             s[i] = ch /\ \A j \in 1..(i - 1) : s[j] # ch
    ELSE Len(s) + 1

\* net/url's unescape succeeds: every "%" is followed by two hexadecimal
\* digits.
ValidEscapes(s) ==
    \A i \in 1..Len(s) :
        s[i] = "%" => /\ i + 2 <= Len(s)
                      /\ s[i + 1] \in HexDigit
                      /\ s[i + 2] \in HexDigit

\* url.Parse of baseURL + path + s, as http.NewRequest calls it: "nil" or
\* the error.  The fragment is cut off at the first "#"; what is before it
\* may hold no control character and is cut at the first "?" into path and
\* query; the escapes of the path and of the fragment are checked, the
\* query is taken as it is.
parseURL(rest, frag) ==
    IF \E i \in 1..Len(rest) : rest[i] \in ControlChar
    THEN "net/url: invalid control character in URL"
    ELSE IF ~ValidEscapes(SubSeq(rest, 1, IndexOf(rest, "?") - 1))
    THEN "net/url: invalid URL escape"
    ELSE IF ~ValidEscapes(frag) THEN "net/url: invalid URL escape"
    ELSE "nil"

ParseURL(s) ==
    parseURL(SubSeq(s, 1, IndexOf(s, "#") - 1),
             SubSeq(s, IndexOf(s, "#") + 1, Len(s)))

\* http.NewRequest succeeds on baseURL + path + s.
ValidURL(s) == ParseURL(s) = "nil"

-----------------------------------------------------------------------------
(* Client: the methods.  Each gives the finished call for a client c, the  *)
(* arguments and the answer ans the transport gives if it is asked.        *)

\* The orders a range over a map of k entries may take.
Orders(k) ==
    {p \in [1..k -> 1..k] : \A i, j \in 1..k : p[i] = p[j] => i = j}

\* The i-th key of the "symbols" mapping of a markets response; the market
\* under a key has that key as its "symbol".
MarketKey(i) == IF i = 1 THEN BTCUSDT ELSE <<"M">> \o NatToDigits(i)

\* Markets appending the address of the loop variable: every element of
\* the list is the market the loop ended with.
MarketsLoopVariable(c, ans, perm) ==
    LET req == GetRequest(c.httpClient, "/v1/markets", {})
        d == DecodeEnvelope(ans.body, Value(<<>>), TRUE)
        n == Len(d.val.nums)
        markets ==
            MarketList([i \in 1..n |-> d.val.nums[perm[n]]],
                       [i \in 1..n |-> MarketKey(perm[n])])
    IN  Conclude("Markets", NoArgs, req, ans, Nil,
                 [err |-> d.err, val |-> IF d.err = "nil" THEN markets ELSE Nil])

Markets(c, ans, perm) ==
    LET req == GetRequest(c.httpClient, "/v1/markets", {})
        d == DecodeEnvelope(ans.body, Value(<<>>), TRUE)
        \* ranging over the map appends the markets in an unspecified order
        markets ==
            MarketList([i \in 1..Len(d.val.nums) |-> d.val.nums[perm[i]]],
                       [i \in 1..Len(d.val.nums) |-> MarketKey(perm[i])])
    IN  Conclude("Markets", NoArgs, req, ans, Nil,
                 [err |-> d.err, val |-> IF d.err = "nil" THEN markets ELSE Nil])

Currencies(c, ans) ==
    LET req == GetRequest(c.httpClient, "/v1/currencies/stats", {})
    IN  Conclude("Currencies", NoArgs, req, ans, Nil,
                 DecodeEnvelope(ans.body, Nil, TRUE))

MarketOrders(c, symbol, ans) ==
    LET req == GetRequest(c.httpClient, "/v1/depth", {<<"symbol", symbol>>})
        d == DecodeEnvelope(ans.body, Nil, TRUE)
    IN  Conclude("MarketOrders", [symbol |-> symbol], req, ans, Pair(Nil, Nil),
                 [err |-> d.err,
                  val |-> IF d.val = Nil THEN Pair(Nil, Nil)
                          ELSE Pair(d.val, Value(<<>>))])

MarketTrades(c, symbol, ans) ==
    LET req == GetRequest(c.httpClient, "/v1/trades", {<<"symbol", symbol>>})
    IN  Conclude("MarketTrades", [symbol |-> symbol], req, ans, Nil,
                 DecodeEnvelope(ans.body, Nil, TRUE))

Candles(c, symbol, resolution, from, to, ans) ==
    LET args == [symbol |-> symbol, resolution |-> resolution,
                 from |-> from, to |-> to]
        \* http.Get: the request goes through http.DefaultClient
        req == GetRequest(DefaultClient, "/v1/udf/history",
                          {<<"symbol", symbol>>, <<"resolution", resolution>>,
                           <<"from", FormatInt(from)>>, <<"to", FormatInt(to)>>})
        b == ans.body
        n == Len(b.t)
        \* result.O[i] and the like index out of range when an array is
        \* shorter than t
        short == \E a \in {b.o, b.h, b.l, b.c, b.v} : Len(a) < n
        candles == [i \in 1..n |->
                       [Timestamp |-> b.t[i], Open |-> b.o[i], High |-> b.h[i],
                        Low |-> b.l[i], Close |-> b.c[i], Volume |-> b.v[i]]]
    IN  IF /\ ans.kind = "response"
           /\ ans.status = StatusOK
           /\ DecodeError(b) = "nil"
           /\ b.json = "candles"
           /\ short
        THEN Panicked("Candles", args, <<req>>, ans)
        ELSE Conclude("Candles", args, req, ans, Nil,
                      [err |-> DecodeError(b),
                       val |-> CandleList(IF b.json = "candles" THEN candles
                                          ELSE <<>>)])

\* if c.apiKey == "" { return nil, ErrMissingAPIKey }
MissingAPIKey(method, args, nil) ==
    Finished(method, args, <<>>, NoAnswer, nil, ErrMissingAPIKey)

Profile(c, ans) ==
    IF c.apiKey = "" THEN MissingAPIKey("Profile", NoArgs, Nil)
    ELSE Conclude("Profile", NoArgs,
                  AuthRequest(c, "GET", "/v1/account/profile", <<>>, {}, {}),
                  ans, Nil, DecodeEnvelope(ans.body, Nil, FALSE))

Balances(c, ans) ==
    IF c.apiKey = "" THEN MissingAPIKey("Balances", NoArgs, Nil)
    ELSE Conclude("Balances", NoArgs,
                  AuthRequest(c, "GET", "/v1/account/balances", <<>>, {}, {}),
                  ans, Nil, DecodeEnvelope(ans.body, Nil, TRUE))

FeeLevels(c, ans) ==
    IF c.apiKey = "" THEN MissingAPIKey("FeeLevels", NoArgs, Nil)
    ELSE Conclude("FeeLevels", NoArgs,
                  AuthRequest(c, "GET", "/v1/account/fee", <<>>, {}, {}),
                  ans, Nil, DecodeFeeLevels(ans.body))

BankingCards(c, ans) ==
    IF c.apiKey = "" THEN MissingAPIKey("BankingCards", NoArgs, Nil)
    ELSE Conclude("BankingCards", NoArgs,
                  AuthRequest(c, "GET", "/v1/account/card-numbers", <<>>, {}, {}),
                  ans, Nil, DecodeEnvelope(ans.body, Nil, FALSE))

BankAccounts(c, ans) ==
    IF c.apiKey = "" THEN MissingAPIKey("BankAccounts", NoArgs, Nil)
    ELSE Conclude("BankAccounts", NoArgs,
                  AuthRequest(c, "GET", "/v1/account/ibans", <<>>, {}, {}),
                  ans, Nil, DecodeEnvelope(ans.body, Nil, FALSE))

\* PlaceOrder without the check of c.apiKey.
PlaceOrderUnchecked(c, p, ans) ==
    Conclude("PlaceOrder", [p |-> p],
             AuthRequest(c, "POST", "/v1/account/orders", <<>>, {},
                         MarshalOrderParams(p)),
             ans, Nil, DecodeEnvelope(ans.body, Nil, TRUE))

PlaceOrder(c, p, ans) ==
    IF c.apiKey = "" THEN MissingAPIKey("PlaceOrder", [p |-> p], Nil)
    ELSE Conclude("PlaceOrder", [p |-> p],
                  AuthRequest(c, "POST", "/v1/account/orders", <<>>, {},
                              MarshalOrderParams(p)),
                  ans, Nil, DecodeEnvelope(ans.body, Nil, TRUE))

CancelOrder(c, clientOrderID, ans) ==
    IF c.apiKey = ""
    THEN MissingAPIKey("CancelOrder", [clientOrderID |-> clientOrderID], NoResult)
    ELSE Conclude("CancelOrder", [clientOrderID |-> clientOrderID],
                  AuthRequest(c, "DELETE", "/v1/account/orders", <<>>,
                              {<<"clientOrderId", clientOrderID>>}, {}),
                  ans, NoResult, [err |-> "nil", val |-> NoResult])

Order(c, clientOrderID, ans) ==
    IF c.apiKey = ""
    THEN MissingAPIKey("Order", [clientOrderID |-> clientOrderID], Nil)
    ELSE IF ~ValidURL(clientOrderID)
    THEN Finished("Order", [clientOrderID |-> clientOrderID], <<>>, NoAnswer,
                  Nil, wrapRequestError(ParseURL(clientOrderID)))
    ELSE Conclude("Order", [clientOrderID |-> clientOrderID],
                  AuthRequest(c, "GET", "/v1/account/orders/", clientOrderID,
                              {}, {}),
                  ans, Nil, DecodeEnvelope(ans.body, Nil, TRUE))

OpenOrders(c, symbol, ans) ==
    IF c.apiKey = "" THEN MissingAPIKey("OpenOrders", [symbol |-> symbol], Nil)
    ELSE Conclude("OpenOrders", [symbol |-> symbol],
                  AuthRequest(c, "GET", "/v1/account/openOrders", <<>>,
                              IF symbol # <<>> THEN {<<"symbol", symbol>>}
                              ELSE {},
                              {}),
                  ans, Nil, DecodeEnvelope(ans.body, Nil, TRUE))

\* Trades adding the side filter only inside the symbol filter's branch.
TradesNestedFilters(c, symbol, side, ans) ==
    IF c.apiKey = ""
    THEN MissingAPIKey("Trades", [symbol |-> symbol, side |-> side], Nil)
    ELSE Conclude("Trades", [symbol |-> symbol, side |-> side],
                  AuthRequest(c, "GET", "/v1/account/trades", <<>>,
                              IF symbol # <<>>
                              THEN {<<"symbol", symbol>>}
                                       \cup (IF side # <<>>
                                             THEN {<<"side", side>>}
                                             ELSE {})
                              ELSE {},
                              {}),
                  ans, Nil, DecodeEnvelope(ans.body, Nil, TRUE))

Trades(c, symbol, side, ans) ==
    IF c.apiKey = ""
    THEN MissingAPIKey("Trades", [symbol |-> symbol, side |-> side], Nil)
    ELSE Conclude("Trades", [symbol |-> symbol, side |-> side],
                  AuthRequest(c, "GET", "/v1/account/trades", <<>>,
                              (IF symbol # <<>> THEN {<<"symbol", symbol>>}
                               ELSE {})
                                  \cup (IF side # <<>> THEN {<<"side", side>>}
                                        ELSE {}),
                              {}),
                  ans, Nil, DecodeEnvelope(ans.body, Nil, TRUE))

-----------------------------------------------------------------------------
(* Client: the steps                                                       *)

\* The goroutines that call the methods of the one client.
Callers == {"g1", "g2"}

\* A goroutine that is in no call.  Of a goroutine in a call: the method,
\* its arguments, the fields of the client it read and the request it
\* sent, and the response whose body it decodes; of one that has returned:
\* the method and arguments it called and the finished call it was given.
NotRunning ==
    [phase |-> "idle", method |-> "none", args |-> NoArgs, c |-> NoClient,
     reqs |-> <<>>, answer |-> NoAnswer, rec |-> NoCall]

InitClient ==
    /\ env = [set |-> FALSE, val |-> ""]
    /\ opt = NoOptions
    /\ envAtNew = [set |-> FALSE, val |-> ""]
    /\ client = NoClient
    /\ call = NoCall
    /\ allocs = 0
    /\ errorVars = DeclaredErrors
    /\ calls = [p \in Callers |-> NotRunning]

\* The environment variable is set or unset by the process or its parent.
Setenv ==
    /\ \E e \in EnvValues : e # env /\ env' = e
    /\ UNCHANGED <<opt, envAtNew, client, call, allocs, errorVars, calls>>
    /\ UNCHANGED numVars

NewCall ==
    /\ client = NoClient
    /\ \E o \in Options :
           /\ opt' = o
           /\ client' = New(o, env)
    /\ envAtNew' = env
    /\ UNCHANGED <<env, call, allocs, errorVars, calls>>
    /\ UNCHANGED numVars

\* The method of the given name.
Run(c, m, a, ans, perm) ==
    CASE m = "Markets" -> Markets(c, ans, perm)
      [] m = "Currencies" -> Currencies(c, ans)
      [] m = "MarketOrders" -> MarketOrders(c, a.symbol, ans)
      [] m = "MarketTrades" -> MarketTrades(c, a.symbol, ans)
      [] m = "Candles" ->
            Candles(c, a.symbol, a.resolution, a.from, a.to, ans)
      [] m = "Profile" -> Profile(c, ans)
      [] m = "Balances" -> Balances(c, ans)
      [] m = "FeeLevels" -> FeeLevels(c, ans)
      [] m = "BankingCards" -> BankingCards(c, ans)
      [] m = "BankAccounts" -> BankAccounts(c, ans)
      [] m = "PlaceOrder" -> PlaceOrder(c, a.p, ans)
      [] m = "CancelOrder" -> CancelOrder(c, a.clientOrderID, ans)
      [] m = "Order" -> Order(c, a.clientOrderID, ans)
      [] m = "OpenOrders" -> OpenOrders(c, a.symbol, ans)
      [] m = "Trades" -> Trades(c, a.symbol, a.side, ans)

\* A call that waits for the transport's answer: the request is sent, there
\* is no result yet.
InFlight(method, args, reqs) ==
    [method |-> method, args |-> args, reqs |-> reqs, answer |-> NoAnswer,
     outcome |-> "running", result |-> NoResult, err |-> NilError]

\* A call that has the response resp in hand and waits in Decode for its
\* body: there is no result yet, and the answer of the call is on record
\* when it returns.
Decoding(method, args, reqs, resp) ==
    [method |-> method, args |-> args, reqs |-> reqs, answer |-> NoAnswer,
     outcome |-> "decoding", result |-> NoResult, err |-> NilError,
     resp |-> resp]

\* An answer to compute the first step of a method with: what a method
\* sends, and whether it returns before it sends anything, does not depend
\* on the answer.
AnyAnswer == Failure("connection refused")

\* Receiver with the authenticated methods clearing the key they have sent.
ReceiverCleared(c, m) ==
    [apiKey |-> IF m \in AuthMethods THEN "" ELSE c.apiKey,
     httpClient |-> c.httpClient]

\* The fields of the client c once method m has returned: the methods read
\* c.apiKey and c.httpClient, and none assigns to them.
Receiver(c, m) == [apiKey |-> c.apiKey, httpClient |-> c.httpClient]

\* A method is called on the client once the caller has taken the result of
\* the call before.
Idle == client # NoClient /\ call = NoCall

\* The call returns; an Error it allocated is no longer free.
Done(c) ==
    /\ c.err.ptr = "new" => allocs < MaxAllocs
    /\ call' = c
    /\ allocs' = IF c.err.ptr = "new" THEN allocs + 1 ELSE allocs
    /\ errorVars' = Written(c.err)
    /\ client' = Receiver(client, c.method)
    /\ UNCHANGED <<env, opt, envAtNew, calls>>
    /\ UNCHANGED numVars

\* The method has run up to c.httpClient.Do, c.httpClient.Get or http.Get,
\* c being what it comes to: it returns at once when it sends nothing, and
\* waits for the answer otherwise.
Started(c) ==
    IF c.reqs = <<>> THEN Done(c)
    ELSE /\ call' = InFlight(c.method, c.args, c.reqs)
         /\ UNCHANGED <<env, opt, envAtNew, client, allocs, errorVars, calls>>
         /\ UNCHANGED numVars

MarketsCall == Idle /\ Started(Markets(client, AnyAnswer, <<>>))

CurrenciesCall == Idle /\ Started(Currencies(client, AnyAnswer))

MarketOrdersCall ==
    /\ Idle
    /\ \E s \in Symbols : Started(MarketOrders(client, s, AnyAnswer))

MarketTradesCall ==
    /\ Idle
    /\ \E s \in Symbols : Started(MarketTrades(client, s, AnyAnswer))

CandlesCall ==
    /\ Idle
    /\ Started(Candles(client, BTCUSDT, Hour, 0, 3600, AnyAnswer))

ProfileCall == Idle /\ Started(Profile(client, AnyAnswer))

BalancesCall == Idle /\ Started(Balances(client, AnyAnswer))

FeeLevelsCall == Idle /\ Started(FeeLevels(client, AnyAnswer))

BankingCardsCall == Idle /\ Started(BankingCards(client, AnyAnswer))

BankAccountsCall == Idle /\ Started(BankAccounts(client, AnyAnswer))

PlaceOrderCall ==
    /\ Idle
    /\ \E p \in OrderParamsSet : Started(PlaceOrder(client, p, AnyAnswer))

CancelOrderCall ==
    /\ Idle
    /\ \E id \in OrderIDs : Started(CancelOrder(client, id, AnyAnswer))

OrderCall ==
    /\ Idle
    /\ \E id \in OrderIDs : Started(Order(client, id, AnyAnswer))

OpenOrdersCall ==
    /\ Idle
    /\ \E s \in Symbols : Started(OpenOrders(client, s, AnyAnswer))

TradesCall ==
    /\ Idle
    /\ \E s \in Symbols, side \in Sides :
           Started(Trades(client, s, side, AnyAnswer))

\* Get or Do returns to the call that waits.  A failure and a status other
\* than 200 make the method return; with status 200 it reads and decodes
\* the body (CancelOrder reads none and returns), and waits for it.
AnswerCall ==
    /\ call.outcome = "running"
    /\ \E ans \in AnswersFor(call.method) :
           IF /\ ans.kind = "response"
              /\ ans.status = StatusOK
              /\ call.method # "CancelOrder"
           THEN /\ call' = Decoding(call.method, call.args, call.reqs, ans)
                /\ UNCHANGED <<env, opt, envAtNew, client, allocs, errorVars,
                               calls>>
                /\ UNCHANGED numVars
           ELSE Done(Run(client, call.method, call.args, ans, <<>>))

\* The body has come and Decode returns; the method returns.  Markets alone
\* ranges over the decoded map, in any order.
DecodeCall ==
    /\ call.outcome = "decoding"
    /\ \E perm \in IF call.method = "Markets"
                    THEN Orders(Len(call.resp.body.items))
                    ELSE {<<>>} :
           Done(Run(client, call.method, call.args, call.resp, perm))

\* The caller takes the result; the client is ready for the next call.
Release ==
    /\ call.outcome \in {"returned", "panicked"}
    /\ call' = NoCall
    /\ UNCHANGED <<env, opt, envAtNew, client, allocs, errorVars, calls>>
    /\ UNCHANGED numVars

Next ==
    \/ Setenv
    \/ NewCall
    \/ MarketsCall
    \/ CurrenciesCall
    \/ MarketOrdersCall
    \/ MarketTradesCall
    \/ CandlesCall
    \/ ProfileCall
    \/ BalancesCall
    \/ FeeLevelsCall
    \/ BankingCardsCall
    \/ BankAccountsCall
    \/ PlaceOrderCall
    \/ CancelOrderCall
    \/ OrderCall
    \/ OpenOrdersCall
    \/ TradesCall
    \/ AnswerCall
    \/ DecodeCall
    \/ Release

-----------------------------------------------------------------------------
(* Client: goroutines calling the methods of one client at the same time   *)

\* The arguments the goroutines call a method with.
SharedArgs(m) ==
    CASE m \in {"MarketOrders", "MarketTrades", "OpenOrders"} ->
            [symbol |-> BTCUSDT]
      [] m = "Candles" ->
            [symbol |-> BTCUSDT, resolution |-> Hour, from |-> 0, to |-> 3600]
      [] m = "PlaceOrder" ->
            [p |-> [Symbol |-> BTCUSDT, Type |-> <<"L", "I", "M", "I", "T">>,
                    Side |-> <<"B", "U", "Y">>,
                    Price |-> <<"1", "0", "0", ".", "5">>,
                    Quantity |-> <<"2">>, ClientID |-> <<"i", "d", "1">>]]
      [] m \in {"CancelOrder", "Order"} -> [clientOrderID |-> <<"i", "d", "1">>]
      [] m = "Trades" -> [symbol |-> BTCUSDT, side |-> <<"B", "U", "Y">>]
      [] OTHER -> NoArgs

\* What the transport answers to the goroutines' requests: a failure, a
\* status for every case of errNonOKResponse, and 200 with a body that
\* decodes and with one that does not.
SharedAnswers(m) ==
    {Failure(e) : e \in TransportErrors}
        \cup {Response(st, GarbageBody) :
                 st \in {StatusBadRequest, StatusUnauthorized, StatusForbidden,
                         StatusNotFound, 500}}
        \cup {Response(StatusOK, GarbageBody),
              Response(StatusOK,
                       IF m = "Candles"
                       THEN Body("candles", <<>>, {}, Timestamps(1),
                                 <<<<"1", "0", "0", ".", "5">>>>,
                                 <<<<"1", "0", "0", ".", "5">>>>,
                                 <<<<"1", "0", "0", ".", "5">>>>,
                                 <<<<"1", "0", "0", ".", "5">>>>,
                                 <<<<"1", "0", "0", ".", "5">>>>)
                       ELSE EnvelopeBody(<<Quoted(<<"1", "0", "0", ".", "5">>)>>))}

\* New has returned the client the goroutines share.
InitConcurrent ==
    /\ InitNumber
    /\ env \in EnvValues
    /\ opt \in Options
    /\ envAtNew = env
    /\ client = New(opt, env)
    /\ call = NoCall
    /\ allocs = 0
    /\ errorVars = DeclaredErrors
    /\ calls = [p \in Callers |-> NotRunning]

\* Return with the result kept in one place all goroutines read.
ReturnShared(p, c) ==
    /\ c.err.ptr = "new" => allocs < MaxAllocs
    /\ calls' = [q \in Callers |->
                    IF q = p \/ calls[q].phase = "returned"
                    THEN [phase |-> "returned",
                          method |-> IF q = p THEN c.method
                                     ELSE calls[q].method,
                          args |-> IF q = p THEN c.args ELSE calls[q].args,
                          c |-> NoClient, reqs |-> <<>>, answer |-> NoAnswer,
                          rec |-> c]
                    ELSE calls[q]]
    /\ allocs' = IF c.err.ptr = "new" THEN allocs + 1 ELSE allocs
    /\ errorVars' = Written(c.err)
    /\ client' = Receiver(client, c.method)
    /\ UNCHANGED <<env, opt, envAtNew, call>>
    /\ UNCHANGED numVars

\* The call of goroutine p returns c: the results are the goroutine's own,
\* the client and the package-level Errors are as the method left them.
Return(p, c) ==
    /\ c.err.ptr = "new" => allocs < MaxAllocs
    /\ calls' = [calls EXCEPT ![p] =
                    [phase |-> "returned", method |-> c.method,
                     args |-> c.args, c |-> NoClient, reqs |-> <<>>,
                     answer |-> NoAnswer,
                     rec |-> c]]
    /\ allocs' = IF c.err.ptr = "new" THEN allocs + 1 ELSE allocs
    /\ errorVars' = Written(c.err)
    /\ client' = Receiver(client, c.method)
    /\ UNCHANGED <<env, opt, envAtNew, call>>
    /\ UNCHANGED numVars

\* Goroutine p has run the method up to Get or Do, c0 being what it comes
\* to with the client as it is now: it returns at once when it sends
\* nothing; otherwise it keeps what it read and sent and waits, and the
\* other goroutines run.
Sending(p, c0) ==
    IF c0.reqs = <<>> THEN Return(p, c0)
    ELSE /\ calls' = [calls EXCEPT ![p] =
                         [phase |-> "waiting", method |-> c0.method,
                          args |-> c0.args, c |-> client, reqs |-> c0.reqs,
                          answer |-> NoAnswer, rec |-> NoCall]]
         /\ UNCHANGED <<env, opt, envAtNew, client, call, allocs, errorVars>>
         /\ UNCHANGED numVars

\* Goroutine p calls a method.
Begin(p) ==
    /\ calls[p].phase \in {"idle", "returned"}
    /\ \E m \in PublicMethods \cup AuthMethods :
           Sending(p, Run(client, m, SharedArgs(m), AnyAnswer, <<>>))

\* What the call of goroutine p comes to on the answer ans: the method goes
\* on with what it read and sent before it waited.
Outcome(p, ans) ==
    [Run(calls[p].c, calls[p].method, calls[p].args, ans,
         [i \in 1..Len(ans.body.items) |-> i])
        EXCEPT !.reqs = calls[p].reqs]

\* Get or Do returns to goroutine p.  A failure and a status other than 200
\* make the method return; with status 200 it reads and decodes the body
\* (CancelOrder does not), and the other goroutines run meanwhile.
Answer(p) ==
    /\ calls[p].phase = "waiting"
    /\ \E ans \in SharedAnswers(calls[p].method) :
           IF /\ ans.kind = "response"
              /\ ans.status = StatusOK
              /\ calls[p].method # "CancelOrder"
           THEN /\ calls' = [calls EXCEPT ![p].phase = "decoding",
                                          ![p].answer = ans]
                /\ UNCHANGED <<env, opt, envAtNew, client, call, allocs,
                               errorVars>>
                /\ UNCHANGED numVars
           ELSE Return(p, Outcome(p, ans))

\* Decode returns to goroutine p, and the method returns.
Decode(p) ==
    /\ calls[p].phase = "decoding"
    /\ Return(p, Outcome(p, calls[p].answer))

NextConcurrent ==
    \/ \E p \in Callers : Begin(p)
    \/ \E p \in Callers : Answer(p)
    \/ \E p \in Callers : Decode(p)

Init == InitNumber /\ InitClient

\* The client: construction and method calls.
Spec == Init /\ [][Next]_vars

\* The Number type: conversions, decoding and the accessors.
SpecNumber == Init /\ [][NextNumber]_vars

\* Two goroutines calling the methods of one client.
SpecConcurrent == InitConcurrent /\ [][NextConcurrent]_vars

-----------------------------------------------------------------------------
(* Properties of the client                                                *)

\* What a method returns beside an error: nil, (nil, nil) from MarketOrders,
\* nothing from CancelOrder.
NilResult(method) ==
    IF method = "MarketOrders" THEN Pair(Nil, Nil)
    ELSE IF method = "CancelOrder" THEN NoResult
    ELSE Nil

\* C1: an authenticated method called on a client whose credential is empty
\* returns ErrMissingAPIKey and a nil result, and the transport is not
\* invoked, whatever the arguments and whatever the transport would answer.
MissingKeyFailsOffline ==
    (call.method \in AuthMethods /\ client.apiKey = "") =>
        /\ call.outcome = "returned"
        /\ call.err = ErrMissingAPIKey
        /\ call.result = NilResult(call.method)
        /\ call.reqs = <<>>

\* PlaceOrder was called on a client with no credential and failed offline.
MissingKeyPlaceOrder ==
    /\ call.method = "PlaceOrder"
    /\ client.apiKey = ""
    /\ call.err = ErrMissingAPIKey
    /\ call.reqs = <<>>
    /\ call.result = Nil

\* C2: a client New built with a non-empty APIKey option has that key as its
\* credential: its authenticated methods do not return ErrMissingAPIKey and
\* every request they send carries the key in the x-api-key header, whatever
\* WALLEX_API_KEY is.
OptionKeyIsCredential ==
    (client # NoClient /\ opt.APIKey # "") =>
        /\ client.apiKey = opt.APIKey
        /\ call.method \in AuthMethods =>
               /\ call.err # ErrMissingAPIKey
               /\ \A i \in DOMAIN call.reqs :
                      <<"x-api-key", opt.APIKey>> \in call.reqs[i].header

\* C3: a client New built with an empty APIKey option has as credential the
\* value WALLEX_API_KEY had when New ran; the credential is empty, and the
\* authenticated methods return ErrMissingAPIKey, iff the variable was unset
\* or empty then.
EnvKeyIsCredential ==
    (client # NoClient /\ opt.APIKey = "") =>
        /\ client.apiKey = (IF envAtNew.set THEN envAtNew.val ELSE "")
        /\ client.apiKey = "" <=> (~envAtNew.set \/ envAtNew.val = "")
        /\ call.method \in AuthMethods =>
               /\ call.err = ErrMissingAPIKey
                      <=> (~envAtNew.set \/ envAtNew.val = "")
               /\ \A i \in DOMAIN call.reqs :
                      <<"x-api-key", envAtNew.val>> \in call.reqs[i].header

\* The variable held a key when New ran and was changed afterwards; Balances
\* sent its request with the key New read.
EnvKeySentAfterChange ==
    /\ opt.APIKey = ""
    /\ envAtNew = [set |-> TRUE, val |-> "key-env"]
    /\ env # envAtNew
    /\ call.method = "Balances"
    /\ Len(call.reqs) = 1
    /\ <<"x-api-key", "key-env">> \in call.reqs[1].header
    /\ call.err # ErrMissingAPIKey

\* C4: a method that receives a response whose status is not 200 returns
\* ErrBadRequest iff the status is 400, ErrUnauthorized iff 401, ErrForbidden
\* iff 403, ErrNotFound iff 404 and ErrUnknown for every other status (201,
\* 204, 3xx and 5xx among them), with a nil result.
NonOKStatusMapped ==
    (call.answer.kind = "response" /\ call.answer.status # 200) =>
        /\ call.outcome = "returned"
        /\ call.result = NilResult(call.method)
        /\ call.err = ErrBadRequest <=> call.answer.status = 400
        /\ call.err = ErrUnauthorized <=> call.answer.status = 401
        /\ call.err = ErrForbidden <=> call.answer.status = 403
        /\ call.err = ErrNotFound <=> call.answer.status = 404
        /\ call.err = ErrUnknown <=> call.answer.status \notin {400, 401, 403, 404}

\* Order was answered 403 and returned ErrForbidden.
ForbiddenOrder ==
    /\ call.method = "Order"
    /\ call.answer.kind = "response"
    /\ call.answer.status = 403
    /\ call.err = ErrForbidden
    /\ call.result = Nil

\* C5: every method sends its requests through the client's own transport
\* handle: the HTTPClient option when it is not nil, http.DefaultClient
\* otherwise.
OwnTransportOnly ==
    client # NoClient =>
        \A i \in DOMAIN call.reqs :
            call.reqs[i].via = (IF opt.HTTPClient # "nil" THEN opt.HTTPClient
                                ELSE "http.DefaultClient")

\* The Numbers a result holds.
NumbersOf(result) ==
    CASE result.kind = "value" ->
            {result.nums[i] : i \in DOMAIN result.nums}
                \cup (IF "keys" \in DOMAIN result THEN result.keys ELSE {})
      [] result.kind = "pair" ->
            (IF result.ask = Nil THEN {}
             ELSE {result.ask.nums[i] : i \in DOMAIN result.ask.nums})
                \cup (IF result.bid = Nil THEN {}
                      ELSE {result.bid.nums[i] : i \in DOMAIN result.bid.nums})
      [] result.kind = "candles" ->
            UNION {{result.list[i].Open, result.list[i].High,
                    result.list[i].Low, result.list[i].Close,
                    result.list[i].Volume} : i \in DOMAIN result.list}
      [] OTHER -> {}

\* C9: every Number of every result a method returns is the empty string or
\* a string that parses as a floating-point number, the Open, High, Low,
\* Close and Volume of the candles included.
ResultNumbersParse ==
    call.outcome = "returned" =>
        \A n \in NumbersOf(call.result) :
            n = <<>> \/ ParseFloat(n).err = NoError

-----------------------------------------------------------------------------
(* Properties of Number                                                    *)

\* The payload is a JSON string whose content ParseFloat accepts.
NumericString(d) ==
    IsJSONString(d) /\ ParseFloat(Unquote(d)).err = NoError

\* C6: UnmarshalJSON on a JSON string whose content s parses as a
\* floating-point number stores s character for character; IsUndefined() is
\* then false and Float() is the number s denotes.
NumericStringVerbatim ==
    (origin = "UnmarshalJSON" /\ NumericString(data)) =>
        /\ num = SubSeq(data, 2, Len(data) - 1)
        /\ undef.called => ~undef.val
        /\ flt.called =>
               flt.val = ParseFloat(SubSeq(data, 2, Len(data) - 1)).val

\* "0.10" was decoded and is stored with its trailing zero.
TrailingZeroKept ==
    /\ origin = "UnmarshalJSON"
    /\ data = Quoted(<<"0", ".", "1", "0">>)
    /\ num = <<"0", ".", "1", "0">>
    /\ undef.called /\ ~undef.val
    /\ flt.called /\ flt.val = Fin(FALSE, 1, -1)

\* The payload is a string ParseFloat rejects, null, a boolean, or neither a
\* string nor a number (an object, an array, no JSON at all).
NotNumeric(d) ==
    \/ IsJSONString(d) /\ ParseFloat(Unquote(d)).err # NoError
    \/ ~IsJSONString(d) /\ ~IsJSONNumber(d)

\* C7: UnmarshalJSON returns nil for every payload; a payload that is a
\* non-numeric string, null, a boolean, an object or an array leaves the
\* Number absent, so that IsUndefined() is true and Float() is 0; and
\* IsUndefined() is true iff the stored string is empty.
UnmarshalNeverFails ==
    /\ origin = "UnmarshalJSON" => uerr = "nil"
    /\ (origin = "UnmarshalJSON" /\ NotNumeric(data)) =>
           /\ num = <<>>
           /\ undef.called => undef.val
           /\ flt.called => flt.val = Zero(FALSE)
    /\ undef.called => (undef.val <=> num = <<>>)

\* "n/a" was decoded: no error, the Number absent, Float() zero.
NotAvailableAbsent ==
    /\ origin = "UnmarshalJSON"
    /\ data = Quoted(<<"n", "/", "a">>)
    /\ uerr = "nil"
    /\ num = <<>>
    /\ undef.called /\ undef.val
    /\ flt.called /\ flt.val = Zero(FALSE)

\* Optional "-", one digit or more, ".", six digits.
IsFixedSix(s) ==
    /\ Len(s) >= 8
    /\ Len(s) >= 8 + (IF s[1] = "-" THEN 1 ELSE 0)
    /\ s[Len(s) - 6] = "."
    /\ \A i \in 1..Len(s) :
           \/ s[i] \in Digit
           \/ i = Len(s) - 6
           \/ i = 1 /\ s[i] = "-"

\* |a - b| < 10^-6 for finite a and b.
WithinMicro(a, b) ==
    \/ FloatEq(a, b)
    \/ /\ a.cls = "fin"
       /\ b.cls = "fin"
       /\ LET ea == IF a.mant = 0 THEN b.exp ELSE a.exp
              eb == IF b.mant = 0 THEN a.exp ELSE b.exp
              e == IF ea < eb THEN ea ELSE eb
              sa == (IF a.neg THEN -a.mant ELSE a.mant) * Pow10(ea - e)
              sb == (IF b.neg THEN -b.mant ELSE b.mant) * Pow10(eb - e)
          IN  /\ e < -6
              /\ sa - sb < Pow10(-6 - e)
              /\ sb - sa < Pow10(-6 - e)

\* |v| < 5 * 10^-7 for finite v.
BelowHalfMicro(v) ==
    /\ v.cls = "fin"
    /\ \/ v.mant = 0
       \/ v.exp = -7 /\ v.mant < 5
       \/ v.exp < -7 /\ v.mant < 5 * Pow10(-7 - v.exp)

\* C8: UnmarshalJSON on a bare JSON number f that a float64 can hold stores
\* f in fixed point with exactly six digits after the point; the Number is
\* never absent, Float() is less than 10^-6 away from f, and an f below
\* 5 * 10^-7 in magnitude is stored as a zero, not as absent.
BareNumberFixedSix ==
    (/\ origin = "UnmarshalJSON"
     /\ IsJSONNumber(data)
     /\ ParseFloat(data).err = NoError) =>
        /\ IsFixedSix(num)
        /\ undef.called => ~undef.val
        /\ flt.called => WithinMicro(flt.val, ParseFloat(data).val)
        /\ BelowHalfMicro(ParseFloat(data).val) =>
               /\ num \in {<<"0", ".", "0", "0", "0", "0", "0", "0">>,
                           <<"-", "0", ".", "0", "0", "0", "0", "0", "0">>}
               /\ flt.called => IsZero(flt.val)

\* 0.0000004 was decoded and is stored as zero, not as absent.
TinyStoredAsZero ==
    /\ origin = "UnmarshalJSON"
    /\ data = <<"0", ".", "0", "0", "0", "0", "0", "0", "4">>
    /\ num = <<"0", ".", "0", "0", "0", "0", "0", "0">>
    /\ undef.called /\ ~undef.val
    /\ flt.called /\ IsZero(flt.val)

\* C10: Float() returns 0 for every stored string ParseFloat fails on, be it
\* a syntax error ("n/a", "") or a magnitude out of range ("1e400").
FloatZeroOnFailure ==
    (flt.called /\ ParseFloat(num).err # NoError) => flt.val = Zero(FALSE)

-----------------------------------------------------------------------------
(* Properties of calls made one after another and at the same time         *)

\* The finished call of a goroutine that has returned.
Rec(p) == calls[p].rec

\* Goroutine p has returned from a call the transport failed.
TransportFailed(p) ==
    calls[p].phase = "returned" /\ Rec(p).answer.kind = "error"

\* C11: a call the transport fails returns a nil result and a newly
\* allocated Error with Message "request failed" and the transport's error
\* as Cause; the Errors of two such calls are two distinct values, and none
\* is one of the package-level singletons.
TransportFailureWrapped ==
    /\ \A p \in Callers :
           TransportFailed(p) =>
               /\ Rec(p).outcome = "returned"
               /\ Rec(p).result = NilResult(Rec(p).method)
               /\ Rec(p).err.Message = "request failed"
               /\ Rec(p).err.Cause = Rec(p).answer.cause
               /\ Rec(p).err.id \in 1..allocs
               /\ \A e \in Singletons : Rec(p).err.ptr # e.ptr
    /\ \A p, q \in Callers :
           (p # q /\ TransportFailed(p) /\ TransportFailed(q)) =>
               Rec(p).err # Rec(q).err

\* Markets and Profile both failed with "connection refused" and returned
\* two Errors.
TwoFailuresTwoErrors ==
    /\ TransportFailed("g1")
    /\ TransportFailed("g2")
    /\ Rec("g1").method = "Markets"
    /\ Rec("g2").method = "Profile"
    /\ Rec("g1").err.Cause = "connection refused"
    /\ Rec("g2").err.Cause = "connection refused"
    /\ Rec("g1").err # Rec("g2").err

\* Two finished calls that differ at most in where their Error is allocated.
SameOutcome(a, b) == [a EXCEPT !.err.id = 0] = [b EXCEPT !.err.id = 0]

\* What a call of method m with arguments a on the answer ans comes to when
\* it is the only call made on the client New returned.
Alone(m, a, ans) ==
    Run(New(opt, envAtNew), m, a, ans, [i \in 1..1 |-> i])

\* C17: no method changes the credential or the transport handle of the
\* client: whatever the goroutines call and however the steps of their
\* calls interleave, both fields keep the values New gave them; a call that
\* waits for its answer or decodes it has read those values and sent the
\* request it sends when it runs alone; and every call returns what the
\* method returns when it runs alone on the same answer.
ClientSharedSafely ==
    /\ [][client' = client]_vars
    /\ [](client = New(opt, envAtNew))
    /\ [](\A p \in Callers :
              calls[p].phase \in {"waiting", "decoding"} =>
                  /\ calls[p].c = New(opt, envAtNew)
                  /\ calls[p].reqs =
                         Alone(calls[p].method, calls[p].args, AnyAnswer).reqs)
    /\ [](\A p \in Callers :
              calls[p].phase = "returned" =>
                  SameOutcome(Rec(p),
                              Alone(calls[p].method, calls[p].args,
                                    Rec(p).answer)))

\* One goroutine has sent the request of PlaceOrder and waits for the
\* answer; the other has called Balances, was answered 200, decoded the body
\* and returned its result.
OverlappingCalls ==
    /\ client.apiKey # ""
    /\ calls["g2"].phase = "waiting"
    /\ calls["g2"].method = "PlaceOrder"
    /\ Len(calls["g2"].reqs) = 1
    /\ calls["g1"].phase = "returned"
    /\ Rec("g1").method = "Balances"
    /\ Rec("g1").answer.kind = "response"
    /\ Rec("g1").answer.status = StatusOK
    /\ Rec("g1").err = NilError
    /\ Rec("g1").result # NilResult("Balances")

\* Goroutine p has returned from a call answered with a status other than
\* 200.
NonOKAnswered(p) ==
    /\ calls[p].phase = "returned"
    /\ Rec(p).answer.kind = "response"
    /\ Rec(p).answer.status # 200

\* C18: the status errors are fixed singletons: calls answered with the same
\* status other than 200 return the identical Error, one of ErrBadRequest,
\* ErrUnauthorized, ErrForbidden, ErrNotFound and ErrUnknown; these five and
\* ErrMissingAPIKey are six distinct Errors with a nil Cause; and whatever
\* calls have been made, each has the Message and Cause it was declared
\* with, so that every caller holding one reads what it was returned.
StatusErrorsAreSingletons ==
    /\ \A p \in Callers :
           NonOKAnswered(p) =>
               /\ Rec(p).err.ptr \in DOMAIN errorVars \ {ErrMissingAPIKey.ptr}
               /\ Rec(p).err = errNonOKResponse(Rec(p).answer.status)
    /\ \A p, q \in Callers :
           (/\ NonOKAnswered(p)
            /\ NonOKAnswered(q)
            /\ Rec(p).answer.status = Rec(q).answer.status) =>
               Rec(p).err = Rec(q).err
    /\ Cardinality(DOMAIN errorVars) = 6
    /\ \A v, w \in DOMAIN errorVars :
           v # w => errorVars[v].Message # errorVars[w].Message
    /\ \A v \in DOMAIN errorVars : errorVars[v].Cause = "nil"
    /\ errorVars = DeclaredErrors
    /\ \A p \in Callers :
           calls[p].phase = "returned" => Pointee(Rec(p).err) = Rec(p).err

\* Order and Candles were both answered 403 and returned the one
\* ErrForbidden, after an earlier call of one of the goroutines had failed in
\* the transport and been given an Error of its own.
SameForbiddenTwice ==
    /\ NonOKAnswered("g1")
    /\ NonOKAnswered("g2")
    /\ Rec("g1").method = "Order"
    /\ Rec("g2").method = "Candles"
    /\ Rec("g1").answer.status = StatusForbidden
    /\ Rec("g2").answer.status = StatusForbidden
    /\ Rec("g1").err = ErrForbidden
    /\ Rec("g2").err = ErrForbidden
    /\ Pointee(Rec("g1").err) = ErrForbidden
    /\ allocs > 0

-----------------------------------------------------------------------------
(* Properties of the requests and results of single calls                  *)

\* C12: in any sequence of calls every call invokes the transport once when
\* it passes the credential check and not at all otherwise, whatever its
\* outcome; and what it returns is computed from the answer to its own
\* request alone, not from an answer to an earlier call.
OneRequestPerCall ==
    call.method # "none" =>
        /\ Len(call.reqs) = (IF call.method \in AuthMethods /\ client.apiKey = ""
                             THEN 0 ELSE 1)
        /\ (call.outcome = "returned" /\ call.reqs # <<>>) =>
               \E perm \in Orders(Len(call.answer.body.items)) :
                   SameOutcome(call, Run(client, call.method, call.args,
                                         call.answer, perm))

\* The decoder's error on a body, by what the body is.
DecoderError(body) ==
    CASE body.json = "garbage" -> "json: invalid character"
      [] body.json = "mismatch" -> "json: cannot unmarshal"
      [] OTHER -> "nil"

\* The call got a 200 response whose body the decoder rejects.  CancelOrder
\* expects no shape: it does not read the body.
DecodeFailed ==
    /\ call.answer.kind = "response"
    /\ call.answer.status = 200
    /\ call.method # "CancelOrder"
    /\ call.answer.body.json \in {"garbage", "mismatch"}

\* C13: a 200 response whose body cannot be decoded makes the method return
\* an Error with Message "request failed" that wraps the decoder's error,
\* and a nil result (nil ask and nil bid from MarketOrders); no method
\* returns a non-nil error together with a non-nil result.
DecodeFailureDiscardsAll ==
    /\ DecodeFailed =>
           /\ call.outcome = "returned"
           /\ call.err.ptr = "new"
           /\ call.err.Message = "request failed"
           /\ call.err.Cause = DecoderError(call.answer.body)
           /\ call.result = NilResult(call.method)
    /\ (call.outcome = "returned" /\ call.err # NilError) =>
           call.result = NilResult(call.method)

\* MarketOrders got a 200 response of the wrong shape: nil, nil and the
\* wrapped decoder error.
MismatchedDepth ==
    /\ call.method = "MarketOrders"
    /\ DecodeFailed
    /\ call.answer.body.json = "mismatch"
    /\ call.result = Pair(Nil, Nil)
    /\ call.err.Cause = "json: cannot unmarshal"

\* The keys of the body of a request.
BodyKeys(r) == {kv[1] : kv \in r.body}

\* The field of the OrderParams a key of the body is written from.
FieldOf(p, key) ==
    CASE key = "symbol" -> p.Symbol
      [] key = "type" -> p.Type
      [] key = "side" -> p.Side
      [] key = "price" -> p.Price
      [] key = "quantity" -> p.Quantity
      [] key = "client_id" -> p.ClientID

OrderKeys == {"symbol", "type", "side", "price", "quantity", "client_id"}

\* C14: the body of the request PlaceOrder sends has, of the keys symbol,
\* type, side, price, quantity and client_id, exactly those whose field of
\* the OrderParams is not empty.
BodyHasNonEmptyFieldsOnly ==
    (call.method = "PlaceOrder" /\ call.reqs # <<>>) =>
        \A key \in OrderKeys :
            key \in BodyKeys(call.reqs[1]) <=> FieldOf(call.args.p, key) # <<>>

\* C14, amended: the body has the keys symbol, type, side, price and
\* quantity whatever their fields hold, each with its field as a JSON
\* string, and the key client_id iff ClientID is not empty.
BodyOmitsEmptyClientIDOnly ==
    (call.method = "PlaceOrder" /\ call.reqs # <<>>) =>
        /\ BodyKeys(call.reqs[1]) \subseteq OrderKeys
        /\ \A key \in OrderKeys \ {"client_id"} :
               <<key, <<"\"">> \o FieldOf(call.args.p, key) \o <<"\"">> >>
                   \in call.reqs[1].body
        /\ "client_id" \in BodyKeys(call.reqs[1])
               <=> call.args.p.ClientID # <<>>
        /\ \A kv \in call.reqs[1].body :
               kv[2] = <<"\"">> \o FieldOf(call.args.p, kv[1]) \o <<"\"">>

\* An order with no symbol, no price and no client id was sent: "symbol" and
\* "price" are in the body with "" as value, "client_id" is not.
EmptySymbolSent ==
    /\ call.method = "PlaceOrder"
    /\ Len(call.reqs) = 1
    /\ call.args.p.Symbol = <<>>
    /\ call.args.p.Price = <<>>
    /\ call.args.p.ClientID = <<>>
    /\ <<"symbol", <<"\"", "\"">> >> \in call.reqs[1].body
    /\ <<"price", <<"\"", "\"">> >> \in call.reqs[1].body
    /\ "client_id" \notin BodyKeys(call.reqs[1])

\* C15: the requests of the authenticated methods carry the client's
\* credential, and nothing else, as the x-api-key header; the requests of
\* Markets, Currencies, MarketOrders, MarketTrades and Candles carry no
\* header, no body and only the arguments of the call in their query, also
\* when the client has a credential.
CredentialOnlyWhereNeeded ==
    \A i \in DOMAIN call.reqs :
        /\ call.method \in AuthMethods =>
               /\ call.reqs[i].header = {<<"x-api-key", client.apiKey>>}
               /\ client.apiKey # ""
        /\ call.method \in PublicMethods =>
               /\ call.reqs[i].header = {}
               /\ call.reqs[i].body = {}
               /\ call.reqs[i].tail = <<>>
               /\ \A kv \in call.reqs[i].query :
                      kv[1] \in {"symbol", "resolution", "from", "to"}

\* A client with a credential called MarketTrades: the request has no
\* header.
PublicCallWithKey ==
    /\ client.apiKey = "key-env"
    /\ call.method = "MarketTrades"
    /\ Len(call.reqs) = 1
    /\ call.reqs[1].header = {}

\* The markets of a 200 response Markets decoded, by key.
MarketsSent == call.answer.body.items

\* C16: Markets returns a list with one element per key of the "symbols"
\* mapping: as many elements as keys, the market of every key exactly once,
\* in whatever order; a mapping of the one key BTCUSDT gives a list of one
\* market whose symbol is BTCUSDT.
MarketsFlattened ==
    (call.method = "Markets" /\ call.outcome = "returned"
         /\ call.err = NilError) =>
        /\ Len(call.result.nums) = Len(MarketsSent)
        /\ Len(call.result.symbols) = Len(MarketsSent)
        /\ \A k \in DOMAIN MarketsSent :
               Cardinality({i \in DOMAIN call.result.symbols :
                               call.result.symbols[i] = MarketKey(k)}) = 1
        /\ \A i \in DOMAIN call.result.symbols :
               \E k \in DOMAIN MarketsSent :
                   /\ call.result.symbols[i] = MarketKey(k)
                   /\ call.result.nums[i] =
                          UnmarshalJSON(ZeroNumber, MarketsSent[k]).n
        /\ Len(MarketsSent) = 1 =>
               call.result.symbols = <<<<"B", "T", "C", "U", "S", "D", "T">>>>

\* Two markets were returned, the second key's first.
MarketsInMapOrder ==
    /\ call.method = "Markets"
    /\ call.outcome = "returned"
    /\ call.err = NilError
    /\ Len(MarketsSent) = 2
    /\ MarketsSent[1] # MarketsSent[2]
    /\ call.result.symbols = <<MarketKey(2), MarketKey(1)>>
    /\ call.result.nums[1] = UnmarshalJSON(ZeroNumber, MarketsSent[2]).n

\* C19: the checks come in the order credential, transport failure, status,
\* decoding, and the first that fails gives the error: without a credential
\* ErrMissingAPIKey whatever the transport would answer; a transport failure
\* wrapped; a response with a status other than 200 its status error,
\* whether its body is well-formed or not; and a decoder's error only for a
\* response with status 200.
ChecksInOrder ==
    /\ (call.method \in AuthMethods /\ client.apiKey = "") =>
           call.err = ErrMissingAPIKey
    /\ call.answer.kind = "error" =>
           call.err.ptr = "new" /\ call.err.Cause = call.answer.cause
    /\ (call.answer.kind = "response" /\ call.answer.status # 200) =>
           /\ call.err \in Singletons \ {ErrMissingAPIKey}
           /\ call.err.Cause = "nil"
    /\ call.err.Cause \in {"json: invalid character", "json: cannot unmarshal"} =>
           call.answer.kind = "response" /\ call.answer.status = 200

\* FeeLevels was answered 500 with a body that is no JSON and returned
\* ErrUnknown.
MalformedBodyOfFailure ==
    /\ call.method = "FeeLevels"
    /\ call.answer.kind = "response"
    /\ call.answer.status = 500
    /\ call.answer.body.json = "garbage"
    /\ call.err = ErrUnknown

\* C20: for every 200 response Candles returns a candle list or an error:
\* a body of another shape, one of whose o, h, l, c, v arrays is shorter
\* than t included, gives an error and never aborts the call; six arrays of
\* one length n give n candles, the i-th from index i of each array.
CandlesAlwaysReturns ==
    (/\ call.method = "Candles"
     /\ call.answer.kind = "response"
     /\ call.answer.status = 200) =>
        /\ call.outcome = "returned"
        /\ (\E a \in {call.answer.body.o, call.answer.body.h,
                      call.answer.body.l, call.answer.body.c,
                      call.answer.body.v} :
                Len(a) < Len(call.answer.body.t)) =>
               call.err # NilError
        /\ call.err = NilError =>
               /\ Len(call.result.list) = Len(call.answer.body.t)
               /\ \A i \in DOMAIN call.result.list :
                      /\ call.result.list[i].Timestamp = call.answer.body.t[i]
                      /\ call.result.list[i].Open = call.answer.body.o[i]
                      /\ call.result.list[i].High = call.answer.body.h[i]
                      /\ call.result.list[i].Low = call.answer.body.l[i]
                      /\ call.result.list[i].Close = call.answer.body.c[i]
                      /\ call.result.list[i].Volume = call.answer.body.v[i]

\* The query parameters of a request, as a set of key/value pairs, that a
\* filter argument accounts for: the pair when the argument is not empty,
\* nothing when it is.
Filter(key, arg) == IF arg = <<>> THEN {} ELSE {<<key, arg>>}

\* C21: the request OpenOrders sends has the query parameter symbol, with
\* the argument as its value, iff the argument is not empty, and no other
\* parameter; the request Trades sends has symbol iff its symbol argument
\* is not empty and side iff its side argument is not empty, each whatever
\* the other is, and no other parameter.
OptionalFiltersSent ==
    \A i \in DOMAIN call.reqs :
        /\ call.method = "OpenOrders" =>
               call.reqs[i].query = Filter("symbol", call.args.symbol)
        /\ call.method = "Trades" =>
               call.reqs[i].query =
                   Filter("symbol", call.args.symbol)
                       \cup Filter("side", call.args.side)

\* Trades was called with a side and no symbol, and its request has the
\* side parameter alone.
SideWithoutSymbol ==
    /\ call.method = "Trades"
    /\ call.args.symbol = <<>>
    /\ call.args.side = <<"B", "U", "Y">>
    /\ Len(call.reqs) = 1
    /\ call.reqs[1].query = {<<"side", <<"B", "U", "Y">>>>}

\* C22: the value a Number holds after UnmarshalJSON is the value the
\* payload gives a Number that held nothing, whatever it held before: a
\* payload that is no number and no numeric string leaves it absent also
\* when it held a valid value, and decoding the same payload once more
\* leaves the value as it is.
PayloadAloneDecides ==
    origin = "UnmarshalJSON" =>
        /\ num = UnmarshalJSON(ZeroNumber, data).n
        /\ NotNumeric(data) => num = <<>>
        /\ UnmarshalJSON(num, data).n = num

\* A Number that held a number was given the payload "n/a" and is absent.
OldValueDropped ==
    /\ origin = "UnmarshalJSON"
    /\ held = "number"
    /\ data = Quoted(<<"n", "/", "a">>)
    /\ num = <<>>

=============================================================================
